---- MODULE Spec2Model ----
(***************************************************************************)
(* A model of the KeyMint Go client (src/src/Index.go, src/src/Types.go).  *)
(*                                                                         *)
(* The caller constructs a Client with New and then calls the thirteen     *)
(* operations.  Every operation declares a zero-valued result, delegates   *)
(* to one of three transport primitives (handleRequest, handleGetRequest,  *)
(* handleDeleteRequest) and returns (&result, err).  A primitive builds    *)
(* one HTTP request, hands it to the HTTP client, reads the body and       *)
(* classifies the response by its status code.                             *)
(*                                                                         *)
(* The HTTP client (net/http), the URL parser (net/url) and the JSON       *)
(* tokenizer (encoding/json) are the platform: the server, the network     *)
(* and the bytes of a body are an environment that chooses among the       *)
(* outcomes below.  What encoding/json does with a parsed value and a Go   *)
(* type of this repository (field matching by tag, omitempty, type         *)
(* mismatches, null) is computed.                                          *)
(***************************************************************************)
EXTENDS Integers, Sequences, FiniteSets, TLC

\* Calls started over the client's lifetime that the model follows.
MaxCalls == 2

----------------------------------------------------------------------------
(* Go values.  A string is a string, an int an integer, a bool a BOOLEAN,   *)
(* a struct a record over its Go field names.  A pointer is Nil or Ptr(v);  *)
(* a slice is NilSlice or Slice(elements).                                  *)

Nil == [t |-> "nil"]

Ptr(v) == [t |-> "ptr", v |-> v]

NilSlice == [t |-> "nilslice"]

Slice(es) == [t |-> "slice", e |-> es]

(* Go types, as encoding/json sees them: the kind, and for a struct its     *)
(* fields in order with their json tag.                                     *)
TString == [k |-> "string"]

TInt == [k |-> "int"]

TBool == [k |-> "bool"]

TPtr(T) == [k |-> "ptr", elem |-> T]

TSlice(T) == [k |-> "slice", elem |-> T]

TStruct(fs) == [k |-> "struct", fields |-> fs]

\* A struct field `name T json:"tag"`; omitempty as the tag says.
Field(name, tag, T) == [name |-> name, tag |-> tag, type |-> T, omitempty |-> FALSE]

FieldOmitEmpty(name, tag, T) == [name |-> name, tag |-> tag, type |-> T, omitempty |-> TRUE]

FieldNames(T) == {T.fields[i].name : i \in DOMAIN T.fields}

FieldOf(T, name) == T.fields[CHOOSE i \in DOMAIN T.fields : T.fields[i].name = name]

RECURSIVE Zero(_)
\* The zero value of a Go type (`var result T`).
Zero(T) ==
  CASE T.k = "string" -> ""
    [] T.k = "int" -> 0
    [] T.k = "bool" -> FALSE
    [] T.k = "ptr" -> Nil
    [] T.k = "slice" -> NilSlice
    [] T.k = "struct" -> [n \in FieldNames(T) |-> Zero(FieldOf(T, n).type)]

----------------------------------------------------------------------------
(* JSON values, as the tokenizer of encoding/json delivers them.            *)

JNull == [t |-> "null"]

JStr(s) == [t |-> "str", s |-> s]

\* A number without fraction or exponent.
JNum(n) == [t |-> "num", n |-> n]

JBool(b) == [t |-> "bool", b |-> b]

\* An object: a record from its keys to JSON values.
JObj(o) == [t |-> "obj", o |-> o]

JArr(es) == [t |-> "arr", e |-> es]

\* An object with no keys.
NoKeys == [x \in {} |-> JNull]

\* The text is not JSON at all.
Invalid == [t |-> "invalid"]

----------------------------------------------------------------------------
(* encoding/json on the types of this repository.                           *)

RECURSIVE Decode(_, _, _)
(* json.Unmarshal's store of the JSON value j into a Go value of type T     *)
(* that holds cur: the value afterwards, and whether an UnmarshalTypeError  *)
(* was saved.  A value of the wrong JSON kind is skipped and the rest is    *)
(* decoded as well as it can be; null leaves a non-pointer as it is; keys   *)
(* no field is tagged with are ignored.                                     *)
Decode(j, T, cur) ==
  CASE T.k = "string" ->
         IF j.t = "null" THEN [val |-> cur, err |-> FALSE]
         ELSE IF j.t = "str" THEN [val |-> j.s, err |-> FALSE]
         ELSE [val |-> cur, err |-> TRUE]
    [] T.k = "int" ->
         IF j.t = "null" THEN [val |-> cur, err |-> FALSE]
         ELSE IF j.t = "num" THEN [val |-> j.n, err |-> FALSE]
         ELSE [val |-> cur, err |-> TRUE]
    [] T.k = "bool" ->
         IF j.t = "null" THEN [val |-> cur, err |-> FALSE]
         ELSE IF j.t = "bool" THEN [val |-> j.b, err |-> FALSE]
         ELSE [val |-> cur, err |-> TRUE]
    [] T.k = "ptr" ->
         IF j.t = "null" THEN [val |-> Nil, err |-> FALSE]
         ELSE LET inner == Decode(j, T.elem, IF cur.t = "nil" THEN Zero(T.elem) ELSE cur.v)
              IN  [val |-> Ptr(inner.val), err |-> inner.err]
    [] T.k = "slice" ->
         IF j.t = "null" THEN [val |-> NilSlice, err |-> FALSE]
         ELSE IF j.t = "arr"
           THEN [val |-> Slice([i \in DOMAIN j.e |-> Decode(j.e[i], T.elem, Zero(T.elem)).val]),
                 err |-> \E i \in DOMAIN j.e : Decode(j.e[i], T.elem, Zero(T.elem)).err]
         ELSE [val |-> cur, err |-> TRUE]
    [] T.k = "struct" ->
         IF j.t = "null" THEN [val |-> cur, err |-> FALSE]
         ELSE IF j.t = "obj"
           THEN [val |-> [n \in FieldNames(T) |->
                            IF FieldOf(T, n).tag \in DOMAIN j.o
                            THEN Decode(j.o[FieldOf(T, n).tag], FieldOf(T, n).type, cur[n]).val
                            ELSE cur[n]],
                 err |-> \E n \in FieldNames(T) :
                            /\ FieldOf(T, n).tag \in DOMAIN j.o
                            /\ Decode(j.o[FieldOf(T, n).tag], FieldOf(T, n).type, cur[n]).err]
         ELSE [val |-> cur, err |-> TRUE]

\* A strict json.Unmarshal: null, a key no field is tagged with and a field
\* without its key are errors.
Unmarshal_Strict(body, T, cur) ==
  IF body.json.t = "invalid"
  THEN [val |-> cur, err |-> "invalid character 'x' looking for beginning of value"]
  ELSE LET d == Decode(body.json, T, cur)
           tags == {FieldOf(T, n).tag : n \in FieldNames(T)}
       IN  [val |-> d.val,
            err |-> IF d.err THEN "json: cannot unmarshal value into Go value"
                    ELSE IF body.json.t = "null" THEN "json: null"
                    ELSE IF body.json.t = "obj" /\ DOMAIN body.json.o # tags
                    THEN "json: unknown or missing field"
                    ELSE ""]

(* json.Unmarshal(body, &cur): text that is not JSON is refused before      *)
(* anything is stored; otherwise the value is stored as Decode does and the *)
(* first saved type error, if any, is returned.  err is "" for nil.         *)
Unmarshal(body, T, cur) ==
  IF body.json.t = "invalid"
  THEN [val |-> cur, err |-> "invalid character 'x' looking for beginning of value"]
  ELSE LET d == Decode(body.json, T, cur)
       IN  [val |-> d.val,
            err |-> IF d.err THEN "json: cannot unmarshal value into Go value" ELSE ""]

\* An empty value that looks through the pointer: a pointer to "" is empty.
IsEmptyValue_ThroughPointer(v, T) ==
  CASE T.k = "string" -> v = ""
    [] T.k = "int" -> v = 0
    [] T.k = "bool" -> v = FALSE
    [] T.k = "ptr" -> v.t = "nil" \/ (T.elem.k = "string" /\ v.v = "")
    [] T.k = "slice" -> v.t = "nilslice" \/ Len(v.e) = 0
    [] T.k = "struct" -> FALSE

\* encoding/json's isEmptyValue, which decides omitempty.
IsEmptyValue(v, T) ==
  CASE T.k = "string" -> v = ""
    [] T.k = "int" -> v = 0
    [] T.k = "bool" -> v = FALSE
    [] T.k = "ptr" -> v.t = "nil"
    [] T.k = "slice" -> v.t = "nilslice" \/ Len(v.e) = 0
    [] T.k = "struct" -> FALSE

RECURSIVE Encode(_, _)
(* json.Marshal of the Go value v of type T: a nil pointer is null, a       *)
(* struct is an object of its fields by tag, without the omitempty fields   *)
(* that hold an empty value.                                                *)
Encode(v, T) ==
  CASE T.k = "string" -> JStr(v)
    [] T.k = "int" -> JNum(v)
    [] T.k = "bool" -> JBool(v)
    [] T.k = "ptr" -> IF v.t = "nil" THEN JNull ELSE Encode(v.v, T.elem)
    [] T.k = "slice" ->
         IF v.t = "nilslice" THEN JNull
         ELSE JArr([i \in DOMAIN v.e |-> Encode(v.e[i], T.elem)])
    [] T.k = "struct" ->
         LET kept == {n \in FieldNames(T) :
                        ~(FieldOf(T, n).omitempty /\ IsEmptyValue(v[n], FieldOf(T, n).type))}
             nameOf(tag) == CHOOSE n \in kept : FieldOf(T, n).tag = tag
         IN  JObj([tag \in {FieldOf(T, n).tag : n \in kept} |->
                     Encode(v[nameOf(tag)], FieldOf(T, nameOf(tag)).type)])

(* json.Marshal(params): the bytes, and the error ("" for nil).  The        *)
(* parameter types hold strings, bools and pointers to them only, which     *)
(* Marshal encodes without error.                                           *)
Marshal(v, T) == [json |-> Encode(v, T), err |-> ""]

----------------------------------------------------------------------------
(* The types of src/src/Types.go.                                           *)

NewCustomer ==
  TStruct(<<Field("Name", "name", TString),
            FieldOmitEmpty("Email", "email", TPtr(TString))>>)

CreateKeyParams ==
  TStruct(<<Field("ProductID", "productId", TString),
            FieldOmitEmpty("MaxActivations", "maxActivations", TPtr(TString)),
            FieldOmitEmpty("ExpiryDate", "expiryDate", TPtr(TString)),
            FieldOmitEmpty("CustomerID", "customerId", TPtr(TString)),
            FieldOmitEmpty("NewCustomer", "newCustomer", TPtr(NewCustomer))>>)

CreateKeyResponse ==
  TStruct(<<Field("Code", "code", TInt),
            Field("Key", "key", TString)>>)

ApiError ==
  TStruct(<<Field("Message", "message", TString),
            Field("Code", "code", TInt),
            FieldOmitEmpty("Status", "status", TPtr(TInt))>>)

ActivateKeyParams ==
  TStruct(<<Field("ProductID", "productId", TString),
            Field("LicenseKey", "licenseKey", TString),
            FieldOmitEmpty("HostID", "hostId", TPtr(TString)),
            FieldOmitEmpty("DeviceTag", "deviceTag", TPtr(TString))>>)

ActivateKeyResponse ==
  TStruct(<<Field("Code", "code", TInt),
            Field("Message", "message", TString),
            FieldOmitEmpty("LicenseeName", "licenseeName", TPtr(TString)),
            FieldOmitEmpty("LicenseeEmail", "licenseeEmail", TPtr(TString))>>)

\* DeactivateKeyParams with a HostID that is not omitempty.
DeactivateKeyParams_HostIDAlways ==
  TStruct(<<Field("ProductID", "productId", TString),
            Field("LicenseKey", "licenseKey", TString),
            Field("HostID", "hostId", TPtr(TString))>>)

DeactivateKeyParams ==
  TStruct(<<Field("ProductID", "productId", TString),
            Field("LicenseKey", "licenseKey", TString),
            FieldOmitEmpty("HostID", "hostId", TPtr(TString))>>)

DeactivateKeyResponse ==
  TStruct(<<Field("Message", "message", TString),
            Field("Code", "code", TInt)>>)

DeviceDetails ==
  TStruct(<<Field("HostID", "hostId", TString),
            FieldOmitEmpty("DeviceTag", "deviceTag", TPtr(TString)),
            FieldOmitEmpty("IPAddress", "ipAddress", TPtr(TString)),
            Field("ActivationTime", "activationTime", TString)>>)

LicenseDetails ==
  TStruct(<<Field("ID", "id", TString),
            Field("Key", "key", TString),
            Field("ProductID", "productId", TString),
            Field("MaxActivations", "maxActivations", TInt),
            Field("Activations", "activations", TInt),
            Field("Devices", "devices", TSlice(DeviceDetails)),
            Field("Activated", "activated", TBool),
            FieldOmitEmpty("ExpirationDate", "expirationDate", TPtr(TString))>>)

CustomerDetails ==
  TStruct(<<Field("ID", "id", TString),
            FieldOmitEmpty("Name", "name", TPtr(TString)),
            FieldOmitEmpty("Email", "email", TPtr(TString)),
            Field("Active", "active", TBool)>>)

GetKeyParams ==
  TStruct(<<Field("ProductID", "productId", TString),
            Field("LicenseKey", "licenseKey", TString)>>)

GetKeyResponse ==
  TStruct(<<Field("Code", "code", TInt),
            Field("Data", "data",
                  TStruct(<<Field("License", "license", LicenseDetails),
                            FieldOmitEmpty("Customer", "customer", TPtr(CustomerDetails))>>))>>)

BlockKeyParams ==
  TStruct(<<Field("ProductID", "productId", TString),
            Field("LicenseKey", "licenseKey", TString)>>)

BlockKeyResponse ==
  TStruct(<<Field("Message", "message", TString),
            Field("Code", "code", TInt)>>)

UnblockKeyParams ==
  TStruct(<<Field("ProductID", "productId", TString),
            Field("LicenseKey", "licenseKey", TString)>>)

UnblockKeyResponse ==
  TStruct(<<Field("Message", "message", TString),
            Field("Code", "code", TInt)>>)

CreateCustomerParams ==
  TStruct(<<Field("Name", "name", TString),
            Field("Email", "email", TString)>>)

CreateCustomerResponse ==
  TStruct(<<Field("ID", "id", TString),
            Field("Action", "action", TString),
            Field("Status", "status", TBool),
            Field("Message", "message", TString),
            Field("Data", "data",
                  TStruct(<<Field("ID", "id", TString),
                            Field("Name", "name", TString),
                            Field("Email", "email", TString)>>)),
            Field("Code", "code", TInt)>>)

Customer ==
  TStruct(<<Field("ID", "id", TString),
            Field("Name", "name", TString),
            Field("Email", "email", TString),
            Field("Active", "active", TBool),
            Field("CreatedAt", "createdAt", TString),
            Field("UpdatedAt", "updatedAt", TString),
            Field("CreatedBy", "createdBy", TString)>>)

GetAllCustomersResponse ==
  TStruct(<<Field("Action", "action", TString),
            Field("Status", "status", TBool),
            Field("Data", "data", TSlice(Customer)),
            Field("Code", "code", TInt)>>)

GetCustomerWithKeysParams ==
  TStruct(<<Field("CustomerID", "customerId", TString)>>)

CustomerLicenseKey ==
  TStruct(<<Field("ID", "id", TString),
            Field("Key", "key", TString),
            Field("ProductID", "productId", TString),
            Field("MaxActivations", "maxActivations", TInt),
            Field("Activations", "activations", TInt),
            Field("Activated", "activated", TBool),
            FieldOmitEmpty("ExpirationDate", "expirationDate", TPtr(TString))>>)

GetCustomerWithKeysResponse ==
  TStruct(<<Field("Action", "action", TString),
            Field("Status", "status", TBool),
            Field("Data", "data",
                  TStruct(<<Field("Customer", "customer", Customer),
                            Field("LicenseKeys", "licenseKeys", TSlice(CustomerLicenseKey))>>)),
            Field("Code", "code", TInt)>>)

UpdateCustomerParams ==
  TStruct(<<Field("CustomerID", "customerId", TString),
            FieldOmitEmpty("Name", "name", TPtr(TString)),
            FieldOmitEmpty("Email", "email", TPtr(TString)),
            FieldOmitEmpty("Active", "active", TPtr(TBool))>>)

UpdateCustomerResponse ==
  TStruct(<<Field("Action", "action", TString),
            Field("Status", "status", TBool),
            Field("Message", "message", TString),
            Field("Data", "data", Customer),
            Field("Code", "code", TInt)>>)

ToggleCustomerStatusParams ==
  TStruct(<<Field("CustomerID", "customerId", TString)>>)

ToggleCustomerStatusResponse ==
  TStruct(<<Field("Action", "action", TString),
            Field("Status", "status", TBool),
            Field("Message", "message", TString),
            Field("Code", "code", TInt)>>)

GetCustomerByIdParams ==
  TStruct(<<Field("CustomerID", "customerId", TString)>>)

GetCustomerByIdResponse ==
  TStruct(<<Field("Action", "action", TString),
            Field("Status", "status", TBool),
            Field("Data", "data", TSlice(Customer)),
            Field("Code", "code", TInt)>>)

DeleteCustomerParams ==
  TStruct(<<Field("CustomerID", "customerId", TString)>>)

DeleteCustomerResponse ==
  TStruct(<<Field("Action", "action", TString),
            Field("Status", "status", TBool),
            Field("Message", "message", TString),
            Field("Code", "code", TInt)>>)

----------------------------------------------------------------------------
(* error values: the nil interface, a *ApiError, or what fmt.Errorf makes.  *)

NilError == [dyn |-> "nil"]

\* &ApiError{Message: m, Code: c, Status: s} as an error.
ApiErrorOf(m, c, s) == [dyn |-> "*ApiError", Message |-> m, Code |-> c, Status |-> s]

\* fmt.Errorf(s), with no verb in s.
Errorf(s) == [dyn |-> "*errors.errorString", s |-> s]

\* err.Error(), with (*ApiError).Error of Types.go.
Error(err) ==
  IF err.dyn = "*ApiError"
  THEN IF err.Status.t # "nil"
       THEN "KeyMint API Error (code: " \o ToString(err.Code) \o ", status: "
              \o ToString(err.Status.v) \o "): " \o err.Message
       ELSE "KeyMint API Error (code: " \o ToString(err.Code) \o "): " \o err.Message
  ELSE err.s

----------------------------------------------------------------------------
(* The platform: URLs net/url refuses, what the server and the network can  *)
(* answer, and the bodies a response can carry.                             *)

\* The paths of the thirteen operations.
Endpoints ==
  {"/key", "/key/activate", "/key/deactivate", "/key/block", "/key/unblock",
   "/customer", "/customer/keys", "/customer/by-id", "/customer/disable"}

\* Base URLs url.Parse refuses whatever path follows ("missing protocol scheme").
BadBaseURLs == {"://keymint"}

\* url.Parse(u) inside http.NewRequest: the error text, "" for nil.
URLParseError(u) ==
  IF \E b \in BadBaseURLs, e \in Endpoints : u = b \o e
  THEN "parse \"" \o u \o "\": missing protocol scheme"
  ELSE ""

\* A response body: its bytes as text, and the JSON value they spell.
Body(raw, json) == [raw |-> raw, json |-> json]

BodyNotJSON == Body("Bad Gateway", Invalid)

BodyEmpty == Body("", Invalid)

BodyNull == Body("null", JNull)

BodyEmptyObject == Body("{}", JObj(NoKeys))

BodyArray == Body("[]", JArr(<<>>))

BodyUnknownKeys == Body("{\"ok\":1}", JObj([ok |-> JNum(1)]))

BodyError ==
  Body("{\"message\":\"Email already exists\",\"code\":1001}",
       JObj([message |-> JStr("Email already exists"), code |-> JNum(1001)]))

BodyErrorWithStatus ==
  Body("{\"message\":\"Invalid request body\",\"code\":400,\"status\":418}",
       JObj([message |-> JStr("Invalid request body"), code |-> JNum(400),
             status |-> JNum(418)]))

BodyErrorEmptyMessage ==
  Body("{\"message\":\"\",\"code\":1001}",
       JObj([message |-> JStr(""), code |-> JNum(1001)]))

BodyErrorNoMessage == Body("{\"code\":1001}", JObj([code |-> JNum(1001)]))

BodyErrorBadCode ==
  Body("{\"message\":\"quota\",\"code\":\"E7\"}",
       JObj([message |-> JStr("quota"), code |-> JStr("E7")]))

BodyCreateKey ==
  Body("{\"code\":0,\"key\":\"LICENSE-KEY-12345\"}",
       JObj([code |-> JNum(0), key |-> JStr("LICENSE-KEY-12345")]))

BodyCreateCustomer ==
  Body("{\"id\":\"\",\"action\":\"createCustomer\",\"status\":true,\"message\":\"Customer created successfully\",\"data\":{\"id\":\"12345\",\"name\":\"A\",\"email\":\"a@b.com\"},\"code\":0}",
       JObj([id |-> JStr(""), action |-> JStr("createCustomer"), status |-> JBool(TRUE),
             message |-> JStr("Customer created successfully"),
             data |-> JObj([id |-> JStr("12345"), name |-> JStr("A"),
                            email |-> JStr("a@b.com")]),
             code |-> JNum(0)]))

\* An activation answer with one of the two optional licensee fields.
BodyActivateKey ==
  Body("{\"code\":0,\"message\":\"License valid\",\"licenseeName\":\"A\"}",
       JObj([code |-> JNum(0), message |-> JStr("License valid"),
             licenseeName |-> JStr("A")]))

\* The answer of DeactivateKey, BlockKey and UnblockKey.
BodyMessageCode ==
  Body("{\"message\":\"Device deactivated\",\"code\":0}",
       JObj([message |-> JStr("Device deactivated"), code |-> JNum(0)]))

\* A customer object of the customer answers.
JCustomer ==
  JObj([id |-> JStr("12345"), name |-> JStr("A"), email |-> JStr("a@b.com"),
        active |-> JBool(TRUE), createdAt |-> JStr("2025-01-01T00:00:00Z"),
        updatedAt |-> JStr("2025-01-02T00:00:00Z"), createdBy |-> JStr("u1")])

\* A license answer with one device, no expiration date, and its customer.
BodyGetKey ==
  Body("{\"code\":0,\"data\":{\"license\":{\"id\":\"lic-1\",\"key\":\"LICENSE-KEY-12345\",\"productId\":\"p1\",\"maxActivations\":5,\"activations\":1,\"devices\":[{\"hostId\":\"host-1\",\"deviceTag\":\"laptop\",\"activationTime\":\"2025-01-03T00:00:00Z\"}],\"activated\":true},\"customer\":{\"id\":\"12345\",\"name\":\"A\",\"active\":true}}}",
       JObj([code |-> JNum(0),
             data |-> JObj([
               license |-> JObj([id |-> JStr("lic-1"), key |-> JStr("LICENSE-KEY-12345"),
                                 productId |-> JStr("p1"), maxActivations |-> JNum(5),
                                 activations |-> JNum(1),
                                 devices |-> JArr(<<JObj([hostId |-> JStr("host-1"),
                                                          deviceTag |-> JStr("laptop"),
                                                          activationTime |-> JStr("2025-01-03T00:00:00Z")])>>),
                                 activated |-> JBool(TRUE)]),
               customer |-> JObj([id |-> JStr("12345"), name |-> JStr("A"),
                                  active |-> JBool(TRUE)])])]))

\* The answer of GetAllCustomers and GetCustomerById: an array of customers.
BodyCustomers ==
  Body("{\"action\":\"getCustomers\",\"status\":true,\"data\":[{\"id\":\"12345\",\"name\":\"A\",\"email\":\"a@b.com\",\"active\":true,\"createdAt\":\"2025-01-01T00:00:00Z\",\"updatedAt\":\"2025-01-02T00:00:00Z\",\"createdBy\":\"u1\"}],\"code\":0}",
       JObj([action |-> JStr("getCustomers"), status |-> JBool(TRUE),
             data |-> JArr(<<JCustomer>>), code |-> JNum(0)]))

\* The answer of GetCustomerWithKeys: a customer and one license key.
BodyCustomerWithKeys ==
  Body("{\"action\":\"getCustomerWithKeys\",\"status\":true,\"data\":{\"customer\":{\"id\":\"12345\",\"name\":\"A\",\"email\":\"a@b.com\",\"active\":true,\"createdAt\":\"2025-01-01T00:00:00Z\",\"updatedAt\":\"2025-01-02T00:00:00Z\",\"createdBy\":\"u1\"},\"licenseKeys\":[{\"id\":\"lic-1\",\"key\":\"LICENSE-KEY-12345\",\"productId\":\"p1\",\"maxActivations\":5,\"activations\":1,\"activated\":true,\"expirationDate\":\"2026-01-01\"}]},\"code\":0}",
       JObj([action |-> JStr("getCustomerWithKeys"), status |-> JBool(TRUE),
             data |-> JObj([
               customer |-> JCustomer,
               licenseKeys |-> JArr(<<JObj([id |-> JStr("lic-1"),
                                            key |-> JStr("LICENSE-KEY-12345"),
                                            productId |-> JStr("p1"),
                                            maxActivations |-> JNum(5),
                                            activations |-> JNum(1),
                                            activated |-> JBool(TRUE),
                                            expirationDate |-> JStr("2026-01-01")])>>)]),
             code |-> JNum(0)]))

\* The answer of UpdateCustomer: the customer as updated.
BodyUpdateCustomer ==
  Body("{\"action\":\"updateCustomer\",\"status\":true,\"message\":\"Customer updated\",\"data\":{\"id\":\"12345\",\"name\":\"A\",\"email\":\"a@b.com\",\"active\":true,\"createdAt\":\"2025-01-01T00:00:00Z\",\"updatedAt\":\"2025-01-02T00:00:00Z\",\"createdBy\":\"u1\"},\"code\":0}",
       JObj([action |-> JStr("updateCustomer"), status |-> JBool(TRUE),
             message |-> JStr("Customer updated"), data |-> JCustomer, code |-> JNum(0)]))

\* The answer of ToggleCustomerStatus and DeleteCustomer.
BodyActionStatus ==
  Body("{\"action\":\"toggleActive\",\"status\":true,\"message\":\"Customer disabled\",\"code\":0}",
       JObj([action |-> JStr("toggleActive"), status |-> JBool(TRUE),
             message |-> JStr("Customer disabled"), code |-> JNum(0)]))

\* A body of a status below 400 that reports a business failure: status
\* false and a code that is not 0.
BodyBusinessFailure ==
  Body("{\"action\":\"createCustomer\",\"status\":false,\"message\":\"Email already exists\",\"code\":1001}",
       JObj([action |-> JStr("createCustomer"), status |-> JBool(FALSE),
             message |-> JStr("Email already exists"), code |-> JNum(1001)]))

\* A success body whose code is a string: one field of the wrong JSON kind.
BodyCodeAsString ==
  Body("{\"code\":\"0\",\"key\":\"LICENSE-KEY-12345\",\"message\":\"ok\",\"action\":\"done\",\"status\":true}",
       JObj([code |-> JStr("0"), key |-> JStr("LICENSE-KEY-12345"),
             message |-> JStr("ok"), action |-> JStr("done"), status |-> JBool(TRUE)]))

\* An error body whose status is a string.
BodyErrorBadStatus ==
  Body("{\"message\":\"teapot\",\"code\":7,\"status\":\"418\"}",
       JObj([message |-> JStr("teapot"), code |-> JNum(7), status |-> JStr("418")]))

Bodies ==
  {BodyNotJSON, BodyEmpty, BodyNull, BodyEmptyObject, BodyArray, BodyUnknownKeys,
   BodyError, BodyErrorWithStatus, BodyErrorEmptyMessage, BodyErrorNoMessage,
   BodyErrorBadCode, BodyErrorBadStatus, BodyCreateKey, BodyCreateCustomer, BodyCodeAsString,
   BodyActivateKey, BodyMessageCode, BodyGetKey, BodyCustomers, BodyCustomerWithKeys,
   BodyUpdateCustomer, BodyActionStatus, BodyBusinessFailure}

\* Status codes a server answers with, on both sides of 400.
StatusCodes == {200, 399, 400, 503}

(* What c.httpClient.Do and io.ReadAll give for one request: Do's error     *)
(* text ("" for nil), and when Do succeeds the response's status code, the  *)
(* error text of reading its body, and the body read.                       *)
Outcome(doErr, code, readErr, body) ==
  [doErr |-> doErr, StatusCode |-> code, readErr |-> readErr, body |-> body]

Outcomes ==
  {Outcome("dial tcp: connection refused", 0, "", BodyEmpty)}
    \cup {Outcome("", sc, "unexpected EOF", BodyEmpty) : sc \in StatusCodes}
    \cup {Outcome("", sc, "", b) : sc \in StatusCodes, b \in Bodies}

----------------------------------------------------------------------------
(* src/src/Index.go: the client and its transport primitives.               *)

\* New with the message of the legacy constructor.
New_LegacyMessage(accessToken, baseURL) ==
  IF accessToken = ""
  THEN [client |-> Nil,
        err |-> Errorf("access token is required to initialize the SDK")]
  ELSE [client |-> Ptr([baseURL |-> IF baseURL = "" THEN "https://api.keymint.dev"
                                                     ELSE baseURL,
                        accessToken |-> accessToken]),
        err |-> NilError]

\* New without the default of the base URL.
New_NoDefault(accessToken, baseURL) ==
  IF accessToken = ""
  THEN [client |-> Nil,
        err |-> Errorf("access token is required to initialize the client")]
  ELSE [client |-> Ptr([baseURL |-> baseURL, accessToken |-> accessToken]),
        err |-> NilError]

\* New refusing a base URL that no request can be built from.
New_ValidatesBaseURL(accessToken, baseURL) ==
  IF accessToken = ""
  THEN [client |-> Nil,
        err |-> Errorf("access token is required to initialize the client")]
  ELSE IF baseURL \in BadBaseURLs
  THEN [client |-> Nil, err |-> Errorf("invalid base URL")]
  ELSE [client |-> Ptr([baseURL |-> IF baseURL = "" THEN "https://api.keymint.dev"
                                                     ELSE baseURL,
                        accessToken |-> accessToken]),
        err |-> NilError]

\* New returning, beside the error, a client without a token.
New_PartialClient(accessToken, baseURL) ==
  [client |-> Ptr([baseURL |-> IF baseURL = "" THEN "https://api.keymint.dev" ELSE baseURL,
                   accessToken |-> accessToken]),
   err |-> IF accessToken = ""
           THEN Errorf("access token is required to initialize the client")
           ELSE NilError]

\* New(accessToken, baseURL): the (*Client, error) it returns.
New(accessToken, baseURL) ==
  IF accessToken = ""
  THEN [client |-> Nil,
        err |-> Errorf("access token is required to initialize the client")]
  ELSE [client |-> Ptr([baseURL |-> IF baseURL = "" THEN "https://api.keymint.dev"
                                                     ELSE baseURL,
                        accessToken |-> accessToken]),
        err |-> NilError]

\* A request with no body (the nil io.Reader of GET and DELETE).
NoBody == [t |-> "nobody"]

\* A map[string]string with no entries, and the empty header.
NoEntries == [x \in {} |-> ""]

(* http.NewRequest(method, url, body): the request, or the URL parser's     *)
(* error.  RawQuery holds the query parameters set on the request.          *)
NewRequest(method, url, body) ==
  IF URLParseError(url) # ""
  THEN [req |-> Nil, err |-> URLParseError(url)]
  ELSE [req |-> [Method |-> method, URL |-> url, RawQuery |-> NoEntries,
                 Header |-> NoEntries, Body |-> body],
        err |-> ""]

\* req.Header.Set(key, value)
HeaderSet(req, key, value) ==
  [req EXCEPT !.Header = [k \in DOMAIN req.Header \cup {key} |->
                            IF k = key THEN value ELSE req.Header[k]]]

(* q := req.URL.Query(); q.Add(key, value) for every entry;                 *)
(* req.URL.RawQuery = q.Encode(), for a URL that carried no query.          *)
SetQuery(req, queryParams) ==
  [req EXCEPT !.RawQuery = [k \in DOMAIN queryParams |-> queryParams[k]]]

\* handleRequest without the Authorization header.
handleRequestBuild_NoAuthorization(c, method, endpoint, params, P) ==
  LET jsonData == Marshal(params, P)
      r == NewRequest(method, c.baseURL \o endpoint, jsonData.json)
  IN  IF jsonData.err # ""
      THEN [req |-> Nil,
            err |-> ApiErrorOf("failed to marshal request: " \o jsonData.err, -1, Nil)]
      ELSE IF r.err # ""
      THEN [req |-> Nil,
            err |-> ApiErrorOf("failed to create request: " \o r.err, -1, Nil)]
      ELSE [req |-> HeaderSet(r.req, "Content-Type", "application/json"),
            err |-> NilError]

(* handleRequest up to the call of c.httpClient.Do: the request to send,    *)
(* or the error returned before anything is sent.                           *)
handleRequestBuild(c, method, endpoint, params, P) ==
  LET jsonData == Marshal(params, P)
      r == NewRequest(method, c.baseURL \o endpoint, jsonData.json)
  IN  IF jsonData.err # ""
      THEN [req |-> Nil,
            err |-> ApiErrorOf("failed to marshal request: " \o jsonData.err, -1, Nil)]
      ELSE IF r.err # ""
      THEN [req |-> Nil,
            err |-> ApiErrorOf("failed to create request: " \o r.err, -1, Nil)]
      ELSE [req |-> HeaderSet(HeaderSet(r.req, "Authorization", "Bearer " \o c.accessToken),
                              "Content-Type", "application/json"),
            err |-> NilError]

\* handleRequest's error of a response without `apiErr.Status = &resp.StatusCode`.
handleRequestApiError_StatusOfBody(out) ==
  LET apiErr == Unmarshal(out.body, ApiError, Zero(ApiError))
  IN  IF apiErr.err = "" /\ apiErr.val.Message # ""
      THEN ApiErrorOf(apiErr.val.Message, apiErr.val.Code, apiErr.val.Status)
      ELSE ApiErrorOf("API error: " \o out.body.raw, -1, Ptr(out.StatusCode))

\* handleRequest, `if resp.StatusCode >= 400`: the error made of the response.
handleRequestApiError(out) ==
  LET apiErr == Unmarshal(out.body, ApiError, Zero(ApiError))
  IN  IF apiErr.err = "" /\ apiErr.val.Message # ""
      THEN ApiErrorOf(apiErr.val.Message, apiErr.val.Code, Ptr(out.StatusCode))
      ELSE ApiErrorOf("API error: " \o out.body.raw, -1, Ptr(out.StatusCode))

\* handleRequest taking a decoded code other than 0 for a failure.
handleRequestDecode_CodeChecked(out, T, result) ==
  LET u == Unmarshal(out.body, T, result)
  IN  IF u.err # ""
      THEN [err |-> ApiErrorOf("failed to unmarshal response: " \o u.err, -1,
                               Ptr(out.StatusCode)),
            result |-> u.val]
      ELSE IF u.val.Code # 0
      THEN [err |-> ApiErrorOf("API error", u.val.Code, Ptr(out.StatusCode)),
            result |-> u.val]
      ELSE [err |-> NilError, result |-> u.val]

(* handleRequest, the final json.Unmarshal(body, result): the error returned and
   what *result holds afterwards. *)
handleRequestDecode(out, T, result) ==
  LET u == Unmarshal(out.body, T, result)
  IN  IF u.err # ""
      THEN [err |-> ApiErrorOf("failed to unmarshal response: " \o u.err, -1,
                               Ptr(out.StatusCode)),
            result |-> u.val]
      ELSE [err |-> NilError, result |-> u.val]

\* handleRequest with no Status in the error of a failed body read.
handleRequestFinish_ReadErrorNoStatus(out, T, result) ==
  IF out.doErr # ""
  THEN [err |-> ApiErrorOf("request failed: " \o out.doErr, -1, Nil), result |-> result]
  ELSE IF out.readErr # ""
  THEN [err |-> ApiErrorOf("failed to read response: " \o out.readErr, -1, Nil),
        result |-> result]
  ELSE IF out.StatusCode >= 400
  THEN [err |-> handleRequestApiError(out), result |-> result]
  ELSE handleRequestDecode(out, T, result)

(* handleRequest from the return of c.httpClient.Do on: the error returned and
   what *result holds afterwards. *)
handleRequestFinish(out, T, result) ==
  IF out.doErr # ""
  THEN [err |-> ApiErrorOf("request failed: " \o out.doErr, -1, Nil), result |-> result]
  ELSE IF out.readErr # ""
  THEN [err |-> ApiErrorOf("failed to read response: " \o out.readErr, -1,
                           Ptr(out.StatusCode)),
        result |-> result]
  ELSE IF out.StatusCode >= 400
  THEN [err |-> handleRequestApiError(out), result |-> result]
  ELSE handleRequestDecode(out, T, result)

\* handleGetRequest returning http.NewRequest's error as it is.
handleGetRequestBuild_RawError(c, endpoint, queryParams) ==
  LET r == NewRequest("GET", c.baseURL \o endpoint, NoBody)
      q == IF queryParams.t # "nil" THEN SetQuery(r.req, queryParams.m) ELSE r.req
  IN  IF r.err # ""
      THEN [req |-> Nil, err |-> Errorf(r.err)]
      ELSE [req |-> HeaderSet(HeaderSet(q, "Authorization", "Bearer " \o c.accessToken),
                              "Content-Type", "application/json"),
            err |-> NilError]

\* handleGetRequest up to the call of c.httpClient.Do.
handleGetRequestBuild(c, endpoint, queryParams) ==
  LET r == NewRequest("GET", c.baseURL \o endpoint, NoBody)
      q == IF queryParams.t # "nil" THEN SetQuery(r.req, queryParams.m) ELSE r.req
  IN  IF r.err # ""
      THEN [req |-> Nil,
            err |-> ApiErrorOf("failed to create request: " \o r.err, -1, Nil)]
      ELSE [req |-> HeaderSet(HeaderSet(q, "Authorization", "Bearer " \o c.accessToken),
                              "Content-Type", "application/json"),
            err |-> NilError]

\* handleGetRequest's error of a response without the test of the message.
handleGetRequestApiError_AnyMessage(out) ==
  LET apiErr == Unmarshal(out.body, ApiError, Zero(ApiError))
  IN  IF apiErr.err = ""
      THEN ApiErrorOf(apiErr.val.Message, apiErr.val.Code, Ptr(out.StatusCode))
      ELSE ApiErrorOf("API error: " \o out.body.raw, -1, Ptr(out.StatusCode))

\* handleGetRequest, `if resp.StatusCode >= 400`: the error made of the response.
handleGetRequestApiError(out) ==
  LET apiErr == Unmarshal(out.body, ApiError, Zero(ApiError))
  IN  IF apiErr.err = "" /\ apiErr.val.Message # ""
      THEN ApiErrorOf(apiErr.val.Message, apiErr.val.Code, Ptr(out.StatusCode))
      ELSE ApiErrorOf("API error: " \o out.body.raw, -1, Ptr(out.StatusCode))

\* handleGetRequest decoding the body into a value of its own, not into *result.
handleGetRequestDecode_ResultNotStored(out, T, result) ==
  LET u == Unmarshal(out.body, T, result)
  IN  IF u.err # ""
      THEN [err |-> ApiErrorOf("failed to unmarshal response: " \o u.err, -1,
                               Ptr(out.StatusCode)),
            result |-> result]
      ELSE [err |-> NilError, result |-> result]

(* handleGetRequest, the final json.Unmarshal(body, result): the error returned and
   what *result holds afterwards. *)
handleGetRequestDecode(out, T, result) ==
  LET u == Unmarshal(out.body, T, result)
  IN  IF u.err # ""
      THEN [err |-> ApiErrorOf("failed to unmarshal response: " \o u.err, -1,
                               Ptr(out.StatusCode)),
            result |-> u.val]
      ELSE [err |-> NilError, result |-> u.val]

\* handleGetRequest taking a status above 400, not 400 itself, for an error.
handleGetRequestFinish_Above400(out, T, result) ==
  IF out.doErr # ""
  THEN [err |-> ApiErrorOf("request failed: " \o out.doErr, -1, Nil), result |-> result]
  ELSE IF out.readErr # ""
  THEN [err |-> ApiErrorOf("failed to read response: " \o out.readErr, -1,
                           Ptr(out.StatusCode)),
        result |-> result]
  ELSE IF out.StatusCode > 400
  THEN [err |-> handleGetRequestApiError(out), result |-> result]
  ELSE handleGetRequestDecode(out, T, result)

(* handleGetRequest from the return of c.httpClient.Do on: the error returned and
   what *result holds afterwards. *)
handleGetRequestFinish(out, T, result) ==
  IF out.doErr # ""
  THEN [err |-> ApiErrorOf("request failed: " \o out.doErr, -1, Nil), result |-> result]
  ELSE IF out.readErr # ""
  THEN [err |-> ApiErrorOf("failed to read response: " \o out.readErr, -1,
                           Ptr(out.StatusCode)),
        result |-> result]
  ELSE IF out.StatusCode >= 400
  THEN [err |-> handleGetRequestApiError(out), result |-> result]
  ELSE handleGetRequestDecode(out, T, result)

\* handleDeleteRequest addressing the default host instead of c.baseURL.
handleDeleteRequestBuild_DefaultHost(c, endpoint, queryParams) ==
  LET r == NewRequest("DELETE", "https://api.keymint.dev" \o endpoint, NoBody)
      q == IF queryParams.t # "nil" THEN SetQuery(r.req, queryParams.m) ELSE r.req
  IN  IF r.err # ""
      THEN [req |-> Nil,
            err |-> ApiErrorOf("failed to create request: " \o r.err, -1, Nil)]
      ELSE [req |-> HeaderSet(HeaderSet(q, "Authorization", "Bearer " \o c.accessToken),
                              "Content-Type", "application/json"),
            err |-> NilError]

\* handleDeleteRequest up to the call of c.httpClient.Do.
handleDeleteRequestBuild(c, endpoint, queryParams) ==
  LET r == NewRequest("DELETE", c.baseURL \o endpoint, NoBody)
      q == IF queryParams.t # "nil" THEN SetQuery(r.req, queryParams.m) ELSE r.req
  IN  IF r.err # ""
      THEN [req |-> Nil,
            err |-> ApiErrorOf("failed to create request: " \o r.err, -1, Nil)]
      ELSE [req |-> HeaderSet(HeaderSet(q, "Authorization", "Bearer " \o c.accessToken),
                              "Content-Type", "application/json"),
            err |-> NilError]

\* handleDeleteRequest keeping the status the error body carries.
handleDeleteRequestApiError_BodyStatusKept(out) ==
  LET apiErr == Unmarshal(out.body, ApiError, Zero(ApiError))
  IN  IF apiErr.err = "" /\ apiErr.val.Message # ""
      THEN ApiErrorOf(apiErr.val.Message, apiErr.val.Code,
                      IF apiErr.val.Status # Nil THEN apiErr.val.Status
                      ELSE Ptr(out.StatusCode))
      ELSE ApiErrorOf("API error: " \o out.body.raw, -1, Ptr(out.StatusCode))

\* handleDeleteRequest giving the raw body as the message of an error it
\* cannot parse.
handleDeleteRequestApiError_RawBody(out) ==
  LET apiErr == Unmarshal(out.body, ApiError, Zero(ApiError))
  IN  IF apiErr.err = "" /\ apiErr.val.Message # ""
      THEN ApiErrorOf(apiErr.val.Message, apiErr.val.Code, Ptr(out.StatusCode))
      ELSE ApiErrorOf(out.body.raw, -1, Ptr(out.StatusCode))

\* handleDeleteRequest, `if resp.StatusCode >= 400`: the error made of the response.
handleDeleteRequestApiError(out) ==
  LET apiErr == Unmarshal(out.body, ApiError, Zero(ApiError))
  IN  IF apiErr.err = "" /\ apiErr.val.Message # ""
      THEN ApiErrorOf(apiErr.val.Message, apiErr.val.Code, Ptr(out.StatusCode))
      ELSE ApiErrorOf("API error: " \o out.body.raw, -1, Ptr(out.StatusCode))

\* handleDeleteRequest's final json.Unmarshal with its error dropped.
handleDeleteRequestDecode_ErrorDropped(out, T, result) ==
  [err |-> NilError, result |-> Unmarshal(out.body, T, result).val]

(* handleDeleteRequest, the final json.Unmarshal(body, result): the error returned and
   what *result holds afterwards. *)
handleDeleteRequestDecode(out, T, result) ==
  LET u == Unmarshal(out.body, T, result)
  IN  IF u.err # ""
      THEN [err |-> ApiErrorOf("failed to unmarshal response: " \o u.err, -1,
                               Ptr(out.StatusCode)),
            result |-> u.val]
      ELSE [err |-> NilError, result |-> u.val]

(* handleDeleteRequest from the return of c.httpClient.Do on: the error returned and
   what *result holds afterwards. *)
handleDeleteRequestFinish(out, T, result) ==
  IF out.doErr # ""
  THEN [err |-> ApiErrorOf("request failed: " \o out.doErr, -1, Nil), result |-> result]
  ELSE IF out.readErr # ""
  THEN [err |-> ApiErrorOf("failed to read response: " \o out.readErr, -1,
                           Ptr(out.StatusCode)),
        result |-> result]
  ELSE IF out.StatusCode >= 400
  THEN [err |-> handleDeleteRequestApiError(out), result |-> result]
  ELSE handleDeleteRequestDecode(out, T, result)

\* A map[string]string literal, and the nil map GetAllCustomers passes.
Map(m) == [t |-> "map", m |-> m]

\* The local `var result T` of each operation.
ResponseType(name) ==
  CASE name = "CreateKey" -> CreateKeyResponse
    [] name = "ActivateKey" -> ActivateKeyResponse
    [] name = "DeactivateKey" -> DeactivateKeyResponse
    [] name = "GetKey" -> GetKeyResponse
    [] name = "BlockKey" -> BlockKeyResponse
    [] name = "UnblockKey" -> UnblockKeyResponse
    [] name = "CreateCustomer" -> CreateCustomerResponse
    [] name = "GetAllCustomers" -> GetAllCustomersResponse
    [] name = "GetCustomerWithKeys" -> GetCustomerWithKeysResponse
    [] name = "UpdateCustomer" -> UpdateCustomerResponse
    [] name = "DeleteCustomer" -> DeleteCustomerResponse
    [] name = "ToggleCustomerStatus" -> ToggleCustomerStatusResponse
    [] name = "GetCustomerById" -> GetCustomerByIdResponse

----------------------------------------------------------------------------
(* The callers' inputs.                                                     *)

Tokens == {"", "at_CNNOGtg3", "test-token"}

BaseURLs == {"", "http://127.0.0.1:8080", "http://127.0.0.1:8080/", "://keymint"}

\* An optional string: absent, present and empty, present with a value.
OptStrings(v) == {Nil, Ptr(""), Ptr(v)}

CreateKeyParamsValues ==
  {[ProductID |-> "p1", MaxActivations |-> ma, ExpiryDate |-> Nil, CustomerID |-> cid,
    NewCustomer |-> nc] :
     ma \in {Nil, Ptr("5")},
     cid \in {Nil, Ptr("12345")},
     nc \in {Nil, Ptr([Name |-> "Go Customer 2", Email |-> Nil])}}

ActivateKeyParamsValues ==
  {[ProductID |-> "p1", LicenseKey |-> "LICENSE-KEY-12345", HostID |-> h, DeviceTag |-> d] :
     h \in {Nil, Ptr("host-1")}, d \in {Nil, Ptr("")}}

DeactivateKeyParamsValues ==
  {[ProductID |-> "p1", LicenseKey |-> "LICENSE-KEY-12345", HostID |-> h] :
     h \in OptStrings("host-1")}

KeyParamsValues ==
  {[ProductID |-> "p1", LicenseKey |-> k] : k \in {"", "LICENSE-KEY-12345"}}

CreateCustomerParamsValues == {[Name |-> "A", Email |-> "a@b.com"]}

CustomerIDParamsValues == {[CustomerID |-> id] : id \in {"", "12345"}}

UpdateCustomerParamsValues ==
  {[CustomerID |-> "12345", Name |-> n, Email |-> Nil, Active |-> a] :
     n \in {Nil, Ptr("")}, a \in {Nil, Ptr(FALSE), Ptr(TRUE)}}

\* GetAllCustomers() has no parameters.
NoParamsValue == [x \in {} |-> ""]

----------------------------------------------------------------------------
(* The legacy SDK type: NewSDK and its three primitives.                    *)

\* NewSDK with the message of New.
NewSDK_ClientMessage(accessToken, baseURL) ==
  IF accessToken = ""
  THEN [client |-> Nil,
        err |-> Errorf("access token is required to initialize the client")]
  ELSE [client |-> Ptr([baseURL |-> IF baseURL = "" THEN "https://api.keymint.dev"
                                                     ELSE baseURL,
                        accessToken |-> accessToken]),
        err |-> NilError]

\* NewSDK(accessToken, baseURL): the (*SDK, error) it returns.
NewSDK(accessToken, baseURL) ==
  IF accessToken = ""
  THEN [client |-> Nil,
        err |-> Errorf("access token is required to initialize the SDK")]
  ELSE [client |-> Ptr([baseURL |-> IF baseURL = "" THEN "https://api.keymint.dev"
                                                     ELSE baseURL,
                        accessToken |-> accessToken]),
        err |-> NilError]

\* (*SDK).handleRequest, up to the call of s.httpClient.Do.
SDK_handleRequestBuild(s, method, endpoint, params, P) ==
  LET jsonData == Marshal(params, P)
      r == NewRequest(method, s.baseURL \o endpoint, jsonData.json)
  IN  IF jsonData.err # ""
      THEN [req |-> Nil,
            err |-> ApiErrorOf("failed to marshal request: " \o jsonData.err, -1, Nil)]
      ELSE IF r.err # ""
      THEN [req |-> Nil,
            err |-> ApiErrorOf("failed to create request: " \o r.err, -1, Nil)]
      ELSE [req |-> HeaderSet(HeaderSet(r.req, "Authorization", "Bearer " \o s.accessToken),
                              "Content-Type", "application/json"),
            err |-> NilError]

\* (*SDK).handleRequest, the error of a response of status 400 or more.
SDK_handleRequestApiError(out) ==
  LET apiErr == Unmarshal(out.body, ApiError, Zero(ApiError))
  IN  IF apiErr.err = "" /\ apiErr.val.Message # ""
      THEN ApiErrorOf(apiErr.val.Message, apiErr.val.Code, Ptr(out.StatusCode))
      ELSE ApiErrorOf("API error: " \o out.body.raw, -1, Ptr(out.StatusCode))

\* (*SDK).handleRequest, the final json.Unmarshal(body, result).
SDK_handleRequestDecode(out, T, result) ==
  LET u == Unmarshal(out.body, T, result)
  IN  IF u.err # ""
      THEN [err |-> ApiErrorOf("failed to unmarshal response: " \o u.err, -1,
                               Ptr(out.StatusCode)),
            result |-> u.val]
      ELSE [err |-> NilError, result |-> u.val]

\* (*SDK).handleRequest, from the return of s.httpClient.Do on.
SDK_handleRequestFinish(out, T, result) ==
  IF out.doErr # ""
  THEN [err |-> ApiErrorOf("request failed: " \o out.doErr, -1, Nil), result |-> result]
  ELSE IF out.readErr # ""
  THEN [err |-> ApiErrorOf("failed to read response: " \o out.readErr, -1,
                           Ptr(out.StatusCode)),
        result |-> result]
  ELSE IF out.StatusCode >= 400
  THEN [err |-> SDK_handleRequestApiError(out), result |-> result]
  ELSE SDK_handleRequestDecode(out, T, result)

\* (*SDK).handleGetRequest, up to the call of s.httpClient.Do.
SDK_handleGetRequestBuild(s, endpoint, queryParams) ==
  LET r == NewRequest("GET", s.baseURL \o endpoint, NoBody)
      q == IF queryParams.t # "nil" THEN SetQuery(r.req, queryParams.m) ELSE r.req
  IN  IF r.err # ""
      THEN [req |-> Nil,
            err |-> ApiErrorOf("failed to create request: " \o r.err, -1, Nil)]
      ELSE [req |-> HeaderSet(HeaderSet(q, "Authorization", "Bearer " \o s.accessToken),
                              "Content-Type", "application/json"),
            err |-> NilError]

\* (*SDK).handleGetRequest, the error of a response of status 400 or more.
SDK_handleGetRequestApiError(out) ==
  LET apiErr == Unmarshal(out.body, ApiError, Zero(ApiError))
  IN  IF apiErr.err = "" /\ apiErr.val.Message # ""
      THEN ApiErrorOf(apiErr.val.Message, apiErr.val.Code, Ptr(out.StatusCode))
      ELSE ApiErrorOf("API error: " \o out.body.raw, -1, Ptr(out.StatusCode))

\* (*SDK).handleGetRequest, the final json.Unmarshal(body, result).
SDK_handleGetRequestDecode(out, T, result) ==
  LET u == Unmarshal(out.body, T, result)
  IN  IF u.err # ""
      THEN [err |-> ApiErrorOf("failed to unmarshal response: " \o u.err, -1,
                               Ptr(out.StatusCode)),
            result |-> u.val]
      ELSE [err |-> NilError, result |-> u.val]

\* (*SDK).handleGetRequest, from the return of s.httpClient.Do on.
SDK_handleGetRequestFinish(out, T, result) ==
  IF out.doErr # ""
  THEN [err |-> ApiErrorOf("request failed: " \o out.doErr, -1, Nil), result |-> result]
  ELSE IF out.readErr # ""
  THEN [err |-> ApiErrorOf("failed to read response: " \o out.readErr, -1,
                           Ptr(out.StatusCode)),
        result |-> result]
  ELSE IF out.StatusCode >= 400
  THEN [err |-> SDK_handleGetRequestApiError(out), result |-> result]
  ELSE SDK_handleGetRequestDecode(out, T, result)

\* (*SDK).handleDeleteRequest, up to the call of s.httpClient.Do.
SDK_handleDeleteRequestBuild(s, endpoint, queryParams) ==
  LET r == NewRequest("DELETE", s.baseURL \o endpoint, NoBody)
      q == IF queryParams.t # "nil" THEN SetQuery(r.req, queryParams.m) ELSE r.req
  IN  IF r.err # ""
      THEN [req |-> Nil,
            err |-> ApiErrorOf("failed to create request: " \o r.err, -1, Nil)]
      ELSE [req |-> HeaderSet(HeaderSet(q, "Authorization", "Bearer " \o s.accessToken),
                              "Content-Type", "application/json"),
            err |-> NilError]

\* (*SDK).handleDeleteRequest, the error of a response of status 400 or more.
SDK_handleDeleteRequestApiError(out) ==
  LET apiErr == Unmarshal(out.body, ApiError, Zero(ApiError))
  IN  IF apiErr.err = "" /\ apiErr.val.Message # ""
      THEN ApiErrorOf(apiErr.val.Message, apiErr.val.Code, Ptr(out.StatusCode))
      ELSE ApiErrorOf("API error: " \o out.body.raw, -1, Ptr(out.StatusCode))

\* (*SDK).handleDeleteRequest, the final json.Unmarshal(body, result).
SDK_handleDeleteRequestDecode(out, T, result) ==
  LET u == Unmarshal(out.body, T, result)
  IN  IF u.err # ""
      THEN [err |-> ApiErrorOf("failed to unmarshal response: " \o u.err, -1,
                               Ptr(out.StatusCode)),
            result |-> u.val]
      ELSE [err |-> NilError, result |-> u.val]

\* (*SDK).handleDeleteRequest, from the return of s.httpClient.Do on.
SDK_handleDeleteRequestFinish(out, T, result) ==
  IF out.doErr # ""
  THEN [err |-> ApiErrorOf("request failed: " \o out.doErr, -1, Nil), result |-> result]
  ELSE IF out.readErr # ""
  THEN [err |-> ApiErrorOf("failed to read response: " \o out.readErr, -1,
                           Ptr(out.StatusCode)),
        result |-> result]
  ELSE IF out.StatusCode >= 400
  THEN [err |-> SDK_handleDeleteRequestApiError(out), result |-> result]
  ELSE SDK_handleDeleteRequestDecode(out, T, result)

----------------------------------------------------------------------------
(* The state: the client the caller holds, and per calling goroutine the    *)
(* call it is in.                                                           *)

VARIABLES
  newArgs,   \* the arguments of the last call of New, Nil before the first
  client,    \* the *Client New returned, Nil before and when New failed
  newErr,    \* the error New returned
  pc,        \* per goroutine: "idle", the primitive waiting in httpClient.Do, "done"
  op,        \* the operation called
  params,    \* its parameters
  req,       \* the *http.Request handed to httpClient.Do, Nil when none was
  out,       \* what Do and ReadAll gave for it, Nil when nothing yet
  result,    \* the operation's local `result`
  err,       \* the error the transport primitive returned
  ret,       \* what the operation returned: [resp, err], Nil before it returns
  ncalls,    \* operation calls started on the client
  nreq       \* requests handed to httpClient.Do

vars == <<newArgs, client, newErr, pc, op, params, req, out, result, err, ret, ncalls, nreq>>

callVars == <<pc, op, params, req, out, result, err, ret, ncalls, nreq>>

\* The goroutines that call the client.
Goroutines == {"g1"}

Init ==
  /\ newArgs = Nil
  /\ client = Nil
  /\ newErr = NilError
  /\ pc = [g \in Goroutines |-> "idle"]
  /\ op = [g \in Goroutines |-> ""]
  /\ params = [g \in Goroutines |-> Nil]
  /\ req = [g \in Goroutines |-> Nil]
  /\ out = [g \in Goroutines |-> Nil]
  /\ result = [g \in Goroutines |-> Nil]
  /\ err = [g \in Goroutines |-> NilError]
  /\ ret = [g \in Goroutines |-> Nil]
  /\ ncalls = 0
  /\ nreq = 0

\* The caller constructs the client: client, err := New(accessToken, baseURL).
Construct ==
  /\ client = Nil
  /\ \E accessToken \in Tokens, baseURL \in BaseURLs :
       /\ newArgs' = [accessToken |-> accessToken, baseURL |-> baseURL]
       /\ client' = New(accessToken, baseURL).client
       /\ newErr' = New(accessToken, baseURL).err
  /\ UNCHANGED callVars

\* Goroutine g may call an operation on the client.
CanCall(g) ==
  /\ client # Nil
  /\ pc[g] = "idle"
  /\ ncalls < MaxCalls

\* Begin returning a nil response with the error of a request that was not built.
Begin_NilOnError(g, name, ps, prim, b) ==
  /\ op' = [op EXCEPT ![g] = name]
  /\ params' = [params EXCEPT ![g] = ps]
  /\ result' = [result EXCEPT ![g] = Zero(ResponseType(name))]
  /\ out' = [out EXCEPT ![g] = Nil]
  /\ req' = [req EXCEPT ![g] = b.req]
  /\ ncalls' = ncalls + 1
  /\ IF b.err = NilError
     THEN /\ pc' = [pc EXCEPT ![g] = prim]
          /\ nreq' = nreq + 1
          /\ UNCHANGED <<err, ret>>
     ELSE /\ pc' = [pc EXCEPT ![g] = "done"]
          /\ err' = [err EXCEPT ![g] = b.err]
          /\ ret' = [ret EXCEPT ![g] = [resp |-> Nil, err |-> b.err]]
          /\ UNCHANGED nreq
  /\ UNCHANGED <<newArgs, client, newErr>>

(* An operation from its entry to the call of httpClient.Do inside its      *)
(* primitive prim: b is what the primitive built.  When the primitive       *)
(* failed before sending, it returns and so does the operation:             *)
(* return &result, err.                                                     *)
Begin(g, name, ps, prim, b) ==
  /\ op' = [op EXCEPT ![g] = name]
  /\ params' = [params EXCEPT ![g] = ps]
  /\ result' = [result EXCEPT ![g] = Zero(ResponseType(name))]
  /\ out' = [out EXCEPT ![g] = Nil]
  /\ req' = [req EXCEPT ![g] = b.req]
  /\ ncalls' = ncalls + 1
  /\ IF b.err = NilError
     THEN /\ pc' = [pc EXCEPT ![g] = prim]
          /\ nreq' = nreq + 1
          /\ UNCHANGED <<err, ret>>
     ELSE /\ pc' = [pc EXCEPT ![g] = "done"]
          /\ err' = [err EXCEPT ![g] = b.err]
          /\ ret' = [ret EXCEPT ![g] = [resp |-> Ptr(Zero(ResponseType(name))), err |-> b.err]]
          /\ UNCHANGED nreq
  /\ UNCHANGED <<newArgs, client, newErr>>

\* The rest of an operation on a client that answers only its first call
\* from the response, and the later ones with a zero value.
End_StaleAfterFirstCall(g, o, f) ==
  /\ out' = [out EXCEPT ![g] = o]
  /\ result' = [result EXCEPT ![g] = f.result]
  /\ err' = [err EXCEPT ![g] = f.err]
  /\ ret' = [ret EXCEPT ![g] = [resp |-> IF ncalls > 1 THEN Ptr(Zero(ResponseType(op[g])))
                                          ELSE Ptr(f.result),
                                err |-> f.err]]
  /\ pc' = [pc EXCEPT ![g] = "done"]
  /\ UNCHANGED <<newArgs, client, newErr, op, params, req, ncalls, nreq>>

\* The rest of an operation that keeps the error in one place for all the
\* calls on the client: the calls that have returned see the latest one.
End_SharedError(g, o, f) ==
  /\ out' = [out EXCEPT ![g] = o]
  /\ result' = [result EXCEPT ![g] = f.result]
  /\ err' = [h \in DOMAIN err |-> f.err]
  /\ ret' = [h \in DOMAIN ret |->
               IF h = g THEN [resp |-> Ptr(f.result), err |-> f.err]
               ELSE IF ret[h] # Nil THEN [resp |-> ret[h].resp, err |-> f.err]
               ELSE ret[h]]
  /\ pc' = [pc EXCEPT ![g] = "done"]
  /\ UNCHANGED <<newArgs, client, newErr, op, params, req, ncalls, nreq>>

\* The rest of an operation that sends the request once more when
\* httpClient.Do failed.
End_RetryOnFailure(g, o, f) ==
  /\ out' = [out EXCEPT ![g] = o]
  /\ result' = [result EXCEPT ![g] = f.result]
  /\ err' = [err EXCEPT ![g] = f.err]
  /\ ret' = [ret EXCEPT ![g] = [resp |-> Ptr(f.result), err |-> f.err]]
  /\ pc' = [pc EXCEPT ![g] = "done"]
  /\ nreq' = IF o.doErr # "" THEN nreq + 1 ELSE nreq
  /\ UNCHANGED <<newArgs, client, newErr, op, params, req, ncalls>>

(* The rest of an operation, from the return of httpClient.Do: the          *)
(* primitive classifies the outcome into f, and the operation returns       *)
(* &result, err.                                                            *)
End(g, o, f) ==
  /\ out' = [out EXCEPT ![g] = o]
  /\ result' = [result EXCEPT ![g] = f.result]
  /\ err' = [err EXCEPT ![g] = f.err]
  /\ ret' = [ret EXCEPT ![g] = [resp |-> Ptr(f.result), err |-> f.err]]
  /\ pc' = [pc EXCEPT ![g] = "done"]
  /\ UNCHANGED <<newArgs, client, newErr, op, params, req, ncalls, nreq>>

CreateKey(g) ==
  /\ CanCall(g)
  /\ \E ps \in CreateKeyParamsValues :
       Begin(g, "CreateKey", ps, "handleRequest",
             handleRequestBuild(client.v, "POST", "/key", ps, CreateKeyParams))

ActivateKey(g) ==
  /\ CanCall(g)
  /\ \E ps \in ActivateKeyParamsValues :
       Begin(g, "ActivateKey", ps, "handleRequest",
             handleRequestBuild(client.v, "POST", "/key/activate", ps, ActivateKeyParams))

DeactivateKey(g) ==
  /\ CanCall(g)
  /\ \E ps \in DeactivateKeyParamsValues :
       Begin(g, "DeactivateKey", ps, "handleRequest",
             handleRequestBuild(client.v, "POST", "/key/deactivate", ps, DeactivateKeyParams))

\* GetKey without the license key among its query parameters.
GetKey_ProductOnly(g) ==
  /\ CanCall(g)
  /\ \E ps \in KeyParamsValues :
       LET queryParams == Map([productId |-> ps.ProductID])
       IN  Begin(g, "GetKey", ps, "handleGetRequest",
                 handleGetRequestBuild(client.v, "/key", queryParams))

GetKey(g) ==
  /\ CanCall(g)
  /\ \E ps \in KeyParamsValues :
       LET queryParams == Map([productId |-> ps.ProductID, licenseKey |-> ps.LicenseKey])
       IN  Begin(g, "GetKey", ps, "handleGetRequest",
                 handleGetRequestBuild(client.v, "/key", queryParams))

BlockKey(g) ==
  /\ CanCall(g)
  /\ \E ps \in KeyParamsValues :
       Begin(g, "BlockKey", ps, "handleRequest",
             handleRequestBuild(client.v, "POST", "/key/block", ps, BlockKeyParams))

UnblockKey(g) ==
  /\ CanCall(g)
  /\ \E ps \in KeyParamsValues :
       Begin(g, "UnblockKey", ps, "handleRequest",
             handleRequestBuild(client.v, "POST", "/key/unblock", ps, UnblockKeyParams))

CreateCustomer(g) ==
  /\ CanCall(g)
  /\ \E ps \in CreateCustomerParamsValues :
       Begin(g, "CreateCustomer", ps, "handleRequest",
             handleRequestBuild(client.v, "POST", "/customer", ps, CreateCustomerParams))

GetAllCustomers(g) ==
  /\ CanCall(g)
  /\ Begin(g, "GetAllCustomers", NoParamsValue, "handleGetRequest",
           handleGetRequestBuild(client.v, "/customer", Nil))

GetCustomerWithKeys(g) ==
  /\ CanCall(g)
  /\ \E ps \in CustomerIDParamsValues :
       LET queryParams == Map([customerId |-> ps.CustomerID])
       IN  Begin(g, "GetCustomerWithKeys", ps, "handleGetRequest",
                 handleGetRequestBuild(client.v, "/customer/keys", queryParams))

\* UpdateCustomer sent with POST, like the other operations with a body.
UpdateCustomer_Post(g) ==
  /\ CanCall(g)
  /\ \E ps \in UpdateCustomerParamsValues :
       Begin(g, "UpdateCustomer", ps, "handleRequest",
             handleRequestBuild(client.v, "POST", "/customer/by-id", ps, UpdateCustomerParams))

UpdateCustomer(g) ==
  /\ CanCall(g)
  /\ \E ps \in UpdateCustomerParamsValues :
       Begin(g, "UpdateCustomer", ps, "handleRequest",
             handleRequestBuild(client.v, "PUT", "/customer/by-id", ps, UpdateCustomerParams))

DeleteCustomer(g) ==
  /\ CanCall(g)
  /\ \E ps \in CustomerIDParamsValues :
       LET queryParams == Map([customerId |-> ps.CustomerID])
       IN  Begin(g, "DeleteCustomer", ps, "handleDeleteRequest",
                 handleDeleteRequestBuild(client.v, "/customer/by-id", queryParams))

ToggleCustomerStatus(g) ==
  /\ CanCall(g)
  /\ \E ps \in CustomerIDParamsValues :
       Begin(g, "ToggleCustomerStatus", ps, "handleRequest",
             handleRequestBuild(client.v, "POST", "/customer/disable", ps,
                                ToggleCustomerStatusParams))

GetCustomerById(g) ==
  /\ CanCall(g)
  /\ \E ps \in CustomerIDParamsValues :
       LET queryParams == Map([customerId |-> ps.CustomerID])
       IN  Begin(g, "GetCustomerById", ps, "handleGetRequest",
                 handleGetRequestBuild(client.v, "/customer/by-id", queryParams))

\* httpClient.Do returns inside handleRequest and the operation completes.
\* handleRequest forgetting the access token when the server answers 400 or
\* more.
HandleRequestReturns_TokenCleared(g) ==
  /\ pc[g] = "handleRequest"
  /\ \E o \in Outcomes :
       LET f == handleRequestFinish(o, ResponseType(op[g]), result[g])
       IN  /\ out' = [out EXCEPT ![g] = o]
           /\ result' = [result EXCEPT ![g] = f.result]
           /\ err' = [err EXCEPT ![g] = f.err]
           /\ ret' = [ret EXCEPT ![g] = [resp |-> Ptr(f.result), err |-> f.err]]
           /\ pc' = [pc EXCEPT ![g] = "done"]
           /\ client' = IF o.doErr = "" /\ o.StatusCode >= 400
                        THEN Ptr([client.v EXCEPT !.accessToken = ""])
                        ELSE client
           /\ UNCHANGED <<newArgs, newErr, op, params, req, ncalls, nreq>>

HandleRequestReturns(g) ==
  /\ pc[g] = "handleRequest"
  /\ \E o \in Outcomes :
       End(g, o, handleRequestFinish(o, ResponseType(op[g]), result[g]))

\* httpClient.Do returns inside handleGetRequest and the operation completes.
HandleGetRequestReturns(g) ==
  /\ pc[g] = "handleGetRequest"
  /\ \E o \in Outcomes :
       End(g, o, handleGetRequestFinish(o, ResponseType(op[g]), result[g]))

\* httpClient.Do returns inside handleDeleteRequest and the operation completes.
HandleDeleteRequestReturns(g) ==
  /\ pc[g] = "handleDeleteRequest"
  /\ \E o \in Outcomes :
       End(g, o, handleDeleteRequestFinish(o, ResponseType(op[g]), result[g]))

\* The caller has looked at what the operation returned and goes on.
Continue(g) ==
  /\ pc[g] = "done"
  /\ pc' = [pc EXCEPT ![g] = "idle"]
  /\ op' = [op EXCEPT ![g] = ""]
  /\ params' = [params EXCEPT ![g] = Nil]
  /\ req' = [req EXCEPT ![g] = Nil]
  /\ out' = [out EXCEPT ![g] = Nil]
  /\ result' = [result EXCEPT ![g] = Nil]
  /\ err' = [err EXCEPT ![g] = NilError]
  /\ ret' = [ret EXCEPT ![g] = Nil]
  /\ UNCHANGED <<newArgs, client, newErr, ncalls, nreq>>

Next ==
  \/ Construct
  \/ \E g \in Goroutines :
       \/ CreateKey(g)
       \/ ActivateKey(g)
       \/ DeactivateKey(g)
       \/ GetKey(g)
       \/ BlockKey(g)
       \/ UnblockKey(g)
       \/ CreateCustomer(g)
       \/ GetAllCustomers(g)
       \/ GetCustomerWithKeys(g)
       \/ UpdateCustomer(g)
       \/ DeleteCustomer(g)
       \/ ToggleCustomerStatus(g)
       \/ GetCustomerById(g)
       \/ HandleRequestReturns(g)
       \/ HandleGetRequestReturns(g)
       \/ HandleDeleteRequestReturns(g)
       \/ Continue(g)

Spec == Init /\ [][Next]_vars


----------------------------------------------------------------------------
(* Several goroutines calling the operations of one client at once: each    *)
(* call is answered with one of a few outcomes, of every kind the           *)
(* primitives tell apart.                                                   *)

\* A well-formed success body of each operation's response schema.
SuccessBody(name) ==
  CASE name = "CreateKey" -> BodyCreateKey
    [] name = "ActivateKey" -> BodyActivateKey
    [] name \in {"DeactivateKey", "BlockKey", "UnblockKey"} -> BodyMessageCode
    [] name = "GetKey" -> BodyGetKey
    [] name = "CreateCustomer" -> BodyCreateCustomer
    [] name \in {"GetAllCustomers", "GetCustomerById"} -> BodyCustomers
    [] name = "GetCustomerWithKeys" -> BodyCustomerWithKeys
    [] name = "UpdateCustomer" -> BodyUpdateCustomer
    [] name \in {"DeleteCustomer", "ToggleCustomerStatus"} -> BodyActionStatus

\* The goroutines that share the client.
ConcurrentGoroutines == {"g1", "g2"}

InitConc ==
  /\ newArgs = Nil
  /\ client = Nil
  /\ newErr = NilError
  /\ pc = [g \in ConcurrentGoroutines |-> "idle"]
  /\ op = [g \in ConcurrentGoroutines |-> ""]
  /\ params = [g \in ConcurrentGoroutines |-> Nil]
  /\ req = [g \in ConcurrentGoroutines |-> Nil]
  /\ out = [g \in ConcurrentGoroutines |-> Nil]
  /\ result = [g \in ConcurrentGoroutines |-> Nil]
  /\ err = [g \in ConcurrentGoroutines |-> NilError]
  /\ ret = [g \in ConcurrentGoroutines |-> Nil]
  /\ ncalls = 0
  /\ nreq = 0

\* httpClient.Do failing, a body that cannot be read, an error record, a
\* body with a field of the wrong kind, and the success body of the operation.
ConcurrentOutcomes(name) ==
  {Outcome("dial tcp: connection refused", 0, "", BodyEmpty),
   Outcome("", 503, "unexpected EOF", BodyEmpty),
   Outcome("", 400, "", BodyError),
   Outcome("", 200, "", BodyCodeAsString),
   Outcome("", 200, "", SuccessBody(name))}

HandleRequestReturnsConc(g) ==
  /\ pc[g] = "handleRequest"
  /\ \E o \in ConcurrentOutcomes(op[g]) :
       End(g, o, handleRequestFinish(o, ResponseType(op[g]), result[g]))

HandleGetRequestReturnsConc(g) ==
  /\ pc[g] = "handleGetRequest"
  /\ \E o \in ConcurrentOutcomes(op[g]) :
       End(g, o, handleGetRequestFinish(o, ResponseType(op[g]), result[g]))

HandleDeleteRequestReturnsConc(g) ==
  /\ pc[g] = "handleDeleteRequest"
  /\ \E o \in ConcurrentOutcomes(op[g]) :
       End(g, o, handleDeleteRequestFinish(o, ResponseType(op[g]), result[g]))

NextConc ==
  \/ Construct
  \/ \E g \in ConcurrentGoroutines :
       \/ CreateKey(g)
       \/ ActivateKey(g)
       \/ DeactivateKey(g)
       \/ GetKey(g)
       \/ BlockKey(g)
       \/ UnblockKey(g)
       \/ CreateCustomer(g)
       \/ GetAllCustomers(g)
       \/ GetCustomerWithKeys(g)
       \/ UpdateCustomer(g)
       \/ DeleteCustomer(g)
       \/ ToggleCustomerStatus(g)
       \/ GetCustomerById(g)
       \/ HandleRequestReturnsConc(g)
       \/ HandleGetRequestReturnsConc(g)
       \/ HandleDeleteRequestReturnsConc(g)
       \/ Continue(g)

SpecConc == InitConc /\ [][NextConc]_vars


----------------------------------------------------------------------------
(* The legacy SDK type, its thirteen methods. Here the variable client      *)
(* holds the *SDK that NewSDK returned.                                     *)

ConstructSDK ==
  /\ client = Nil
  /\ \E accessToken \in Tokens, baseURL \in BaseURLs :
       /\ newArgs' = [accessToken |-> accessToken, baseURL |-> baseURL]
       /\ client' = NewSDK(accessToken, baseURL).client
       /\ newErr' = NewSDK(accessToken, baseURL).err
  /\ UNCHANGED callVars

\* A method of the SDK up to s.httpClient.Do: var result, the call of the primitive.
SDK_Begin(g, name, ps, prim, b) ==
  /\ op' = [op EXCEPT ![g] = name]
  /\ params' = [params EXCEPT ![g] = ps]
  /\ result' = [result EXCEPT ![g] = Zero(ResponseType(name))]
  /\ out' = [out EXCEPT ![g] = Nil]
  /\ req' = [req EXCEPT ![g] = b.req]
  /\ ncalls' = ncalls + 1
  /\ IF b.err = NilError
     THEN /\ pc' = [pc EXCEPT ![g] = prim]
          /\ nreq' = nreq + 1
          /\ UNCHANGED <<err, ret>>
     ELSE /\ pc' = [pc EXCEPT ![g] = "done"]
          /\ err' = [err EXCEPT ![g] = b.err]
          /\ ret' = [ret EXCEPT ![g] = [resp |-> Ptr(Zero(ResponseType(name))), err |-> b.err]]
          /\ UNCHANGED nreq
  /\ UNCHANGED <<newArgs, client, newErr>>

\* The rest of a method of the SDK: the primitive returns, return &result, err.
SDK_End(g, o, f) ==
  /\ out' = [out EXCEPT ![g] = o]
  /\ result' = [result EXCEPT ![g] = f.result]
  /\ err' = [err EXCEPT ![g] = f.err]
  /\ ret' = [ret EXCEPT ![g] = [resp |-> Ptr(f.result), err |-> f.err]]
  /\ pc' = [pc EXCEPT ![g] = "done"]
  /\ UNCHANGED <<newArgs, client, newErr, op, params, req, ncalls, nreq>>

SDK_CreateKey(g) ==
  /\ CanCall(g)
  /\ \E ps \in CreateKeyParamsValues :
       SDK_Begin(g, "CreateKey", ps, "handleRequest",
             SDK_handleRequestBuild(client.v, "POST", "/key", ps, CreateKeyParams))

SDK_ActivateKey(g) ==
  /\ CanCall(g)
  /\ \E ps \in ActivateKeyParamsValues :
       SDK_Begin(g, "ActivateKey", ps, "handleRequest",
             SDK_handleRequestBuild(client.v, "POST", "/key/activate", ps, ActivateKeyParams))

SDK_DeactivateKey(g) ==
  /\ CanCall(g)
  /\ \E ps \in DeactivateKeyParamsValues :
       SDK_Begin(g, "DeactivateKey", ps, "handleRequest",
             SDK_handleRequestBuild(client.v, "POST", "/key/deactivate", ps, DeactivateKeyParams))

SDK_GetKey(g) ==
  /\ CanCall(g)
  /\ \E ps \in KeyParamsValues :
       LET queryParams == Map([productId |-> ps.ProductID, licenseKey |-> ps.LicenseKey])
       IN  SDK_Begin(g, "GetKey", ps, "handleGetRequest",
                 SDK_handleGetRequestBuild(client.v, "/key", queryParams))

SDK_BlockKey(g) ==
  /\ CanCall(g)
  /\ \E ps \in KeyParamsValues :
       SDK_Begin(g, "BlockKey", ps, "handleRequest",
             SDK_handleRequestBuild(client.v, "POST", "/key/block", ps, BlockKeyParams))

SDK_UnblockKey(g) ==
  /\ CanCall(g)
  /\ \E ps \in KeyParamsValues :
       SDK_Begin(g, "UnblockKey", ps, "handleRequest",
             SDK_handleRequestBuild(client.v, "POST", "/key/unblock", ps, UnblockKeyParams))

SDK_CreateCustomer(g) ==
  /\ CanCall(g)
  /\ \E ps \in CreateCustomerParamsValues :
       SDK_Begin(g, "CreateCustomer", ps, "handleRequest",
             SDK_handleRequestBuild(client.v, "POST", "/customer", ps, CreateCustomerParams))

SDK_GetAllCustomers(g) ==
  /\ CanCall(g)
  /\ SDK_Begin(g, "GetAllCustomers", NoParamsValue, "handleGetRequest",
           SDK_handleGetRequestBuild(client.v, "/customer", Nil))

SDK_GetCustomerWithKeys(g) ==
  /\ CanCall(g)
  /\ \E ps \in CustomerIDParamsValues :
       LET queryParams == Map([customerId |-> ps.CustomerID])
       IN  SDK_Begin(g, "GetCustomerWithKeys", ps, "handleGetRequest",
                 SDK_handleGetRequestBuild(client.v, "/customer/keys", queryParams))

\* The UpdateCustomer of the SDK sent with POST.
SDK_UpdateCustomer_Post(g) ==
  /\ CanCall(g)
  /\ \E ps \in UpdateCustomerParamsValues :
       SDK_Begin(g, "UpdateCustomer", ps, "handleRequest",
                 SDK_handleRequestBuild(client.v, "POST", "/customer/by-id", ps,
                                        UpdateCustomerParams))

SDK_UpdateCustomer(g) ==
  /\ CanCall(g)
  /\ \E ps \in UpdateCustomerParamsValues :
       SDK_Begin(g, "UpdateCustomer", ps, "handleRequest",
             SDK_handleRequestBuild(client.v, "PUT", "/customer/by-id", ps, UpdateCustomerParams))

SDK_DeleteCustomer(g) ==
  /\ CanCall(g)
  /\ \E ps \in CustomerIDParamsValues :
       LET queryParams == Map([customerId |-> ps.CustomerID])
       IN  SDK_Begin(g, "DeleteCustomer", ps, "handleDeleteRequest",
                 SDK_handleDeleteRequestBuild(client.v, "/customer/by-id", queryParams))

SDK_ToggleCustomerStatus(g) ==
  /\ CanCall(g)
  /\ \E ps \in CustomerIDParamsValues :
       SDK_Begin(g, "ToggleCustomerStatus", ps, "handleRequest",
             SDK_handleRequestBuild(client.v, "POST", "/customer/disable", ps,
                                ToggleCustomerStatusParams))

SDK_GetCustomerById(g) ==
  /\ CanCall(g)
  /\ \E ps \in CustomerIDParamsValues :
       LET queryParams == Map([customerId |-> ps.CustomerID])
       IN  SDK_Begin(g, "GetCustomerById", ps, "handleGetRequest",
                 SDK_handleGetRequestBuild(client.v, "/customer/by-id", queryParams))

SDK_HandleRequestReturns(g) ==
  /\ pc[g] = "handleRequest"
  /\ \E o \in Outcomes :
       SDK_End(g, o, SDK_handleRequestFinish(o, ResponseType(op[g]), result[g]))

SDK_HandleGetRequestReturns(g) ==
  /\ pc[g] = "handleGetRequest"
  /\ \E o \in Outcomes :
       SDK_End(g, o, SDK_handleGetRequestFinish(o, ResponseType(op[g]), result[g]))

SDK_HandleDeleteRequestReturns(g) ==
  /\ pc[g] = "handleDeleteRequest"
  /\ \E o \in Outcomes :
       SDK_End(g, o, SDK_handleDeleteRequestFinish(o, ResponseType(op[g]), result[g]))

NextSDK ==
  \/ ConstructSDK
  \/ \E g \in Goroutines :
       \/ SDK_CreateKey(g)
       \/ SDK_ActivateKey(g)
       \/ SDK_DeactivateKey(g)
       \/ SDK_GetKey(g)
       \/ SDK_BlockKey(g)
       \/ SDK_UnblockKey(g)
       \/ SDK_CreateCustomer(g)
       \/ SDK_GetAllCustomers(g)
       \/ SDK_GetCustomerWithKeys(g)
       \/ SDK_UpdateCustomer(g)
       \/ SDK_DeleteCustomer(g)
       \/ SDK_ToggleCustomerStatus(g)
       \/ SDK_GetCustomerById(g)
       \/ SDK_HandleRequestReturns(g)
       \/ SDK_HandleGetRequestReturns(g)
       \/ SDK_HandleDeleteRequestReturns(g)
       \/ Continue(g)

SpecSDK == Init /\ [][NextSDK]_vars


----------------------------------------------------------------------------
(* The query string of handleGetRequest and handleDeleteRequest, character  *)
(* by character: q.Add(key, value) for every entry of queryParams and       *)
(* req.URL.RawQuery = q.Encode().  A value is a sequence of characters; a   *)
(* key, made of letters only, is one element of the query string.           *)

\* The characters of a value: a letter, a digit, the space, and characters
\* that are reserved in a query.
QueryChars == {"a", "2", " ", "&", "=", "%", "+"}

\* The longest value.
MaxValueLen == 2

RECURSIVE SeqsUpTo(_, _)
\* The sequences of at most n elements of S.
SeqsUpTo(S, n) ==
  IF n = 0 THEN {<<>>}
  ELSE SeqsUpTo(S, n - 1) \cup {Append(q, c) : q \in SeqsUpTo(S, n - 1), c \in S}

QueryValues == SeqsUpTo(QueryChars, MaxValueLen)

\* url.QueryEscape of one character: a letter or a digit as it is, the space
\* as "+", any other as "%" and its two hexadecimal digits.
EscapeChar(ch) ==
  CASE ch \in {"a", "2"} -> <<ch>>
    [] ch = " " -> <<"+">>
    [] ch = "&" -> <<"%", "2", "6">>
    [] ch = "=" -> <<"%", "3", "D">>
    [] ch = "%" -> <<"%", "2", "5">>
    [] ch = "+" -> <<"%", "2", "B">>

\* url.QueryEscape without escaping: the value as it is.
QueryEscape_Raw(v) == v

RECURSIVE QueryEscape(_)
\* url.QueryEscape(v)
QueryEscape(v) ==
  IF v = <<>> THEN <<>> ELSE EscapeChar(Head(v)) \o QueryEscape(Tail(v))

\* The keys the operations use, sorted as url.Values.Encode sorts them.
SortedKeys == <<"customerId", "licenseKey", "productId">>

RECURSIVE EncodeKeys(_, _)
\* url.Values.Encode over the keys ks of the values m: key=value of each,
\* joined with "&".
EncodeKeys(m, ks) ==
  IF ks = <<>> THEN <<>>
  ELSE LET k == Head(ks)
           rest == EncodeKeys(m, Tail(ks))
       IN  IF k \notin DOMAIN m THEN rest
           ELSE IF rest = <<>> THEN <<k, "=">> \o QueryEscape(m[k])
           ELSE <<k, "=">> \o QueryEscape(m[k]) \o <<"&">> \o rest

\* q.Encode() after q.Add(key, value) for every entry of queryParams.
ValuesEncode(m) == EncodeKeys(m, SortedKeys)

\* The query parameters the operations pass: those of GetKey, those of the
\* operations on one customer, and the nil map of GetAllCustomers.
QueryParamsValues ==
  {Map([productId |-> p, licenseKey |-> k]) : p \in QueryValues, k \in QueryValues}
    \cup {Map([customerId |-> id]) : id \in QueryValues}
    \cup {Nil}

\* The query of a request from queryParams: req[g] holds the request, of
\* which only RawQuery is kept here, and params[g] the queryParams.
SetRawQuery(g, method, queryParams) ==
  /\ pc[g] = "idle"
  /\ params' = [params EXCEPT ![g] = queryParams]
  /\ req' = [req EXCEPT ![g] =
               [Method |-> method,
                RawQuery |-> IF queryParams # Nil THEN ValuesEncode(queryParams.m)
                             ELSE <<>>]]
  /\ pc' = [pc EXCEPT ![g] = "done"]
  /\ UNCHANGED <<newArgs, client, newErr, op, out, result, err, ret, ncalls, nreq>>

HandleGetRequestQuery(g) ==
  \E queryParams \in QueryParamsValues : SetRawQuery(g, "GET", queryParams)

HandleDeleteRequestQuery(g) ==
  \E queryParams \in QueryParamsValues \ {Nil} : SetRawQuery(g, "DELETE", queryParams)

NextQuery ==
  \E g \in Goroutines :
    \/ HandleGetRequestQuery(g)
    \/ HandleDeleteRequestQuery(g)
    \/ Continue(g)

SpecQuery == Init /\ [][NextQuery]_vars

----------------------------------------------------------------------------
(* Properties.                                                              *)

\* Goroutine g's operation has returned.
Done(g) == pc[g] = "done"

\* httpClient.Do gave g's call an HTTP response.
GotResponse(g) == out[g] # Nil /\ out[g].doErr = ""

\* ... and its body was read.
BodyRead(g) == GotResponse(g) /\ out[g].readErr = ""

\* The JSON value j has key k with a value of kind t.
HasKey(j, k, t) == j.t = "obj" /\ k \in DOMAIN j.o /\ j.o[k].t = t

\* The JSON value j has key k with a value of another kind than t or null.
Mistyped(j, k, t) == j.t = "obj" /\ k \in DOMAIN j.o /\ j.o[k].t \notin {t, "null"}

(* The body is JSON that reads as an error record: an object (or null)      *)
(* whose message, code and status, where present, are a string, an integer  *)
(* and an integer.                                                          *)
ParsesAsErrorRecord(b) ==
  /\ b.json.t \in {"obj", "null"}
  /\ ~Mistyped(b.json, "message", "str")
  /\ ~Mistyped(b.json, "code", "num")
  /\ ~Mistyped(b.json, "status", "num")

\* ... with a non-empty message.
HasMessage(b) == HasKey(b.json, "message", "str") /\ b.json.o.message.s # ""

(* C1: New with an empty access token fails, whatever the base URL, with    *)
(* the message "access token is required to initialize the client".         *)
C1_EmptyTokenFails ==
  (newArgs # Nil /\ newArgs.accessToken = "")
    => /\ newErr # NilError
       /\ Error(newErr) = "access token is required to initialize the client"

\* New was called with an empty token and a base URL.
C1_Witness == newArgs # Nil /\ newArgs.accessToken = "" /\ newArgs.baseURL # ""

(* C2: a response with status >= 400 whose body is an error record          *)
(* {message: M, code: C} with M non-empty gives an ApiError with Message M, *)
(* Code C and Status the observed status code, for every operation.         *)
C2_ErrorRecordReturned ==
  \A g \in Goroutines :
    (/\ Done(g) /\ BodyRead(g)
     /\ out[g].StatusCode >= 400
     /\ ParsesAsErrorRecord(out[g].body) /\ HasMessage(out[g].body)
     /\ HasKey(out[g].body.json, "code", "num"))
      => ret[g].err = ApiErrorOf(out[g].body.json.o.message.s,
                                 out[g].body.json.o.code.n,
                                 Ptr(out[g].StatusCode))

\* CreateCustomer answered 400 {"message":"Email already exists","code":1001}.
C2_Witness ==
  \E g \in Goroutines :
    /\ Done(g) /\ BodyRead(g) /\ op[g] = "CreateCustomer"
    /\ out[g].StatusCode = 400 /\ out[g].body = BodyError

(* C3: a response with status >= 400 whose body is no error record, or one  *)
(* with an empty or missing message, gives Code -1, Message "API error: "   *)
(* followed by the raw body, and Status the observed status code; a code in *)
(* the body is dropped.                                                     *)
C3_UnclassifiedError ==
  \A g \in Goroutines :
    (/\ Done(g) /\ BodyRead(g)
     /\ out[g].StatusCode >= 400
     /\ ~(ParsesAsErrorRecord(out[g].body) /\ HasMessage(out[g].body)))
      => ret[g].err = ApiErrorOf("API error: " \o out[g].body.raw, -1,
                                 Ptr(out[g].StatusCode))

\* A GET answered 503 with {"message":"","code":1001}: the code 1001 is dropped.
C3_Witness ==
  \E g \in Goroutines :
    /\ Done(g) /\ BodyRead(g) /\ op[g] = "GetCustomerById"
    /\ out[g].StatusCode = 503 /\ out[g].body = BodyErrorEmptyMessage
    /\ ret[g].err.Code = -1

(* C4: a response with status < 400 whose body does not decode into the     *)
(* operation's response type gives a non-nil error with Code -1 and Status  *)
(* the (successful) status code.                                            *)
C4_DecodeFailureIsError ==
  \A g \in Goroutines :
    (/\ Done(g) /\ BodyRead(g)
     /\ out[g].StatusCode < 400
     /\ Unmarshal(out[g].body, ResponseType(op[g]), Zero(ResponseType(op[g]))).err # "")
      => /\ ret[g].err # NilError
         /\ ret[g].err.Code = -1
         /\ ret[g].err.Status = Ptr(out[g].StatusCode)

\* DeleteCustomer answered 200 with a body that is not JSON.
C4_Witness ==
  \E g \in Goroutines :
    /\ Done(g) /\ BodyRead(g) /\ op[g] = "DeleteCustomer"
    /\ out[g].StatusCode = 200 /\ out[g].body = BodyNotJSON

(* C5: whenever a call fails, the response returned with the error is the   *)
(* zero value of the response type.                                         *)
C5_ZeroValueOnError ==
  \A g \in Goroutines :
    (Done(g) /\ ret[g].err # NilError)
      => ret[g].resp.v = Zero(ResponseType(op[g]))

(* C6: every call of an operation returns a non-nil response pointer, with  *)
(* or without an error.                                                     *)
C6_ResponseNeverNil ==
  \A g \in Goroutines : Done(g) => ret[g].resp.t = "ptr"

\* A call that failed before any request was sent has returned.
C6_Witness ==
  \E g \in Goroutines : Done(g) /\ ret[g].err # NilError /\ req[g] = Nil

(* C7: a returned error carries a Status exactly when an HTTP response was  *)
(* received: none (and Code -1) for a failure to build or send the request, *)
(* the response's status code otherwise.                                    *)
C7_StatusIffResponse ==
  \A g \in Goroutines :
    (Done(g) /\ ret[g].err # NilError)
      => IF GotResponse(g)
         THEN ret[g].err.Status = Ptr(out[g].StatusCode)
         ELSE ret[g].err.Status = Nil /\ ret[g].err.Code = -1

\* A call to an unreachable host has returned.
C7_Witness ==
  \E g \in Goroutines : Done(g) /\ out[g] # Nil /\ out[g].doErr # ""

(* C8: the error an operation returns is the error its transport primitive  *)
(* returned, and it is nil or a *ApiError.                                  *)
C8_ErrorsAreApiErrors ==
  \A g \in Goroutines :
    Done(g) => /\ ret[g].err = err[g]
               /\ ret[g].err.dyn \in {"nil", "*ApiError"}

\* A GET failed while building its request.
C8_Witness ==
  \E g \in Goroutines :
    Done(g) /\ op[g] = "GetKey" /\ req[g] = Nil /\ ret[g].err # NilError

(* C9: New with a non-empty token and an empty base URL succeeds, and the   *)
(* client's base URL is https://api.keymint.dev.                            *)
C9_DefaultBaseURL ==
  (newArgs # Nil /\ newArgs.accessToken # "" /\ newArgs.baseURL = "")
    => /\ client # Nil
       /\ newErr = NilError
       /\ client.v.baseURL = "https://api.keymint.dev"

C9_Witness == newArgs # Nil /\ newArgs.accessToken # "" /\ newArgs.baseURL = ""

\* The path of each operation in the binding table.
BindingPath(name) ==
  CASE name = "CreateKey" -> "/key"
    [] name = "ActivateKey" -> "/key/activate"
    [] name = "DeactivateKey" -> "/key/deactivate"
    [] name = "GetKey" -> "/key"
    [] name = "BlockKey" -> "/key/block"
    [] name = "UnblockKey" -> "/key/unblock"
    [] name = "CreateCustomer" -> "/customer"
    [] name = "GetAllCustomers" -> "/customer"
    [] name = "GetCustomerWithKeys" -> "/customer/keys"
    [] name = "UpdateCustomer" -> "/customer/by-id"
    [] name = "DeleteCustomer" -> "/customer/by-id"
    [] name = "ToggleCustomerStatus" -> "/customer/disable"
    [] name = "GetCustomerById" -> "/customer/by-id"

(* C10: with a client constructed with a non-empty base URL B, every        *)
(* request of every operation goes to B followed by the operation's path,   *)
(* B unchanged, on every call.                                              *)
C10_BaseURLIsPrefix ==
  \A g \in Goroutines :
    (newArgs # Nil /\ newArgs.baseURL # "" /\ req[g] # Nil)
      => req[g].URL = newArgs.baseURL \o BindingPath(op[g])

\* The second call on a client whose base URL ends in a slash sent a DELETE.
C10_Witness ==
  \E g \in Goroutines :
    /\ req[g] # Nil /\ ncalls = 2 /\ op[g] = "DeleteCustomer"
    /\ newArgs.baseURL = "http://127.0.0.1:8080/"
    /\ req[g].URL = "http://127.0.0.1:8080//customer/by-id"

\* The verb of each operation in the binding table.
BindingVerb(name) ==
  CASE name \in {"CreateKey", "ActivateKey", "DeactivateKey", "BlockKey", "UnblockKey",
                 "CreateCustomer", "ToggleCustomerStatus"} -> "POST"
    [] name \in {"GetKey", "GetAllCustomers", "GetCustomerWithKeys", "GetCustomerById"} -> "GET"
    [] name = "UpdateCustomer" -> "PUT"
    [] name = "DeleteCustomer" -> "DELETE"

(* C11: every operation sends its request with the verb and to the path of  *)
(* the binding table.                                                       *)
C11_VerbAndPath ==
  \A g \in Goroutines :
    req[g] # Nil
      => /\ req[g].Method = BindingVerb(op[g])
         /\ req[g].URL = client.v.baseURL \o BindingPath(op[g])

\* UpdateCustomer has sent PUT /customer/by-id.
C11_Witness ==
  \E g \in Goroutines :
    /\ req[g] # Nil /\ op[g] = "UpdateCustomer"
    /\ req[g].Method = "PUT"
    /\ req[g].URL = "https://api.keymint.dev/customer/by-id"

\* The parameter type of each operation that sends a body.
BindingParams(name) ==
  CASE name = "CreateKey" -> CreateKeyParams
    [] name = "ActivateKey" -> ActivateKeyParams
    [] name = "DeactivateKey" -> DeactivateKeyParams
    [] name = "BlockKey" -> BlockKeyParams
    [] name = "UnblockKey" -> UnblockKeyParams
    [] name = "CreateCustomer" -> CreateCustomerParams
    [] name = "UpdateCustomer" -> UpdateCustomerParams
    [] name = "ToggleCustomerStatus" -> ToggleCustomerStatusParams

\* The query parameters of each operation in the binding table.
BindingQuery(name, ps) ==
  CASE name = "GetKey" -> [productId |-> ps.ProductID, licenseKey |-> ps.LicenseKey]
    [] name \in {"GetCustomerWithKeys", "GetCustomerById", "DeleteCustomer"} ->
         [customerId |-> ps.CustomerID]
    [] OTHER -> NoEntries

\* The JSON object j carries the whole record ps of type P: every field that
\* is not a nil pointer under its tag, a string as it is, and no other key.
CarriesRecord(j, ps, P) ==
  /\ j.t = "obj"
  /\ DOMAIN j.o \subseteq {FieldOf(P, n).tag : n \in FieldNames(P)}
  /\ \A n \in FieldNames(P) :
       IF FieldOf(P, n).type.k = "string"
       THEN /\ FieldOf(P, n).tag \in DOMAIN j.o
            /\ j.o[FieldOf(P, n).tag] = JStr(ps[n])
       ELSE ps[n].t # "nil" => FieldOf(P, n).tag \in DOMAIN j.o

(* C12: the GET and DELETE operations send their identifying fields as      *)
(* query parameters (GetKey productId and licenseKey; GetCustomerWithKeys,  *)
(* GetCustomerById and DeleteCustomer customerId; GetAllCustomers none) and *)
(* no body; the POST and PUT operations send the whole parameter record as  *)
(* the JSON body and no query parameters.                                   *)
C12_QueryOrBody ==
  \A g \in Goroutines :
    req[g] # Nil
      => /\ req[g].RawQuery = BindingQuery(op[g], params[g])
         /\ IF BindingVerb(op[g]) \in {"GET", "DELETE"}
            THEN req[g].Body = NoBody
            ELSE CarriesRecord(req[g].Body, params[g], BindingParams(op[g]))

\* GetKey has sent its two query parameters and no body.
C12_Witness ==
  \E g \in Goroutines :
    /\ req[g] # Nil /\ op[g] = "GetKey"
    /\ req[g].RawQuery = [productId |-> "p1", licenseKey |-> "LICENSE-KEY-12345"]
    /\ req[g].Body = NoBody

(* C13: every request of every operation carries the header Authorization   *)
(* with the value "Bearer " followed by the access token the client was     *)
(* constructed with.                                                        *)
C13_BearerToken ==
  \A g \in Goroutines :
    req[g] # Nil
      => /\ "Authorization" \in DOMAIN req[g].Header
         /\ req[g].Header["Authorization"] = "Bearer " \o newArgs.accessToken

\* A DELETE of a client constructed with "test-token" carries "Bearer test-token".
C13_Witness ==
  \E g \in Goroutines :
    /\ req[g] # Nil /\ req[g].Method = "DELETE"
    /\ newArgs.accessToken = "test-token"
    /\ req[g].Header["Authorization"] = "Bearer test-token"

RECURSIVE OmitsAbsent(_, _, _)
\* The JSON object j of the record v of type T has no key for an optional
\* (pointer) field that is nil, in v and in the records v points to.
OmitsAbsent(j, v, T) ==
  /\ j.t = "obj"
  /\ \A n \in FieldNames(T) :
       LET f == FieldOf(T, n)
       IN  f.type.k = "ptr"
             => IF v[n].t = "nil"
                THEN f.tag \notin DOMAIN j.o
                ELSE /\ f.tag \in DOMAIN j.o
                     /\ f.type.elem.k = "struct"
                          => OmitsAbsent(j.o[f.tag], v[n].v, f.type.elem)

(* C14: the JSON body of a parameter record has no key at all for an        *)
(* optional field that is absent (nil); DeactivateKeyParams without a host  *)
(* identifier gives a body without hostId.                                  *)
C14_AbsentFieldOmitted ==
  \A g \in Goroutines :
    (req[g] # Nil /\ BindingVerb(op[g]) \in {"POST", "PUT"})
      => OmitsAbsent(req[g].Body, params[g], BindingParams(op[g]))

\* DeactivateKey without a host identifier has sent a body of exactly
\* productId and licenseKey.
C14_Witness ==
  \E g \in Goroutines :
    /\ req[g] # Nil /\ op[g] = "DeactivateKey"
    /\ params[g].HostID = Nil
    /\ DOMAIN req[g].Body.o = {"productId", "licenseKey"}

\* The JSON object j of the record v of type T has, for every optional
\* string of v that points to "", its key with the value "".
KeepsEmptyStrings(j, v, T) ==
  /\ j.t = "obj"
  /\ \A n \in FieldNames(T) :
       LET f == FieldOf(T, n)
       IN  (f.type.k = "ptr" /\ f.type.elem.k = "string" /\ v[n].t = "ptr" /\ v[n].v = "")
             => /\ f.tag \in DOMAIN j.o
                /\ j.o[f.tag] = JStr("")

(* C15: an optional parameter field that is present with the empty string   *)
(* is sent in the body as its key with the value "", so present-but-empty   *)
(* and absent differ on the wire.                                           *)
C15_EmptyStringIsPresent ==
  \A g \in Goroutines :
    (req[g] # Nil /\ BindingVerb(op[g]) \in {"POST", "PUT"})
      => KeepsEmptyStrings(req[g].Body, params[g], BindingParams(op[g]))

\* DeactivateKey with a host identifier of "" has sent "hostId": "".
C15_Witness ==
  \E g \in Goroutines :
    /\ req[g] # Nil /\ op[g] = "DeactivateKey"
    /\ params[g].HostID = Ptr("")
    /\ "hostId" \in DOMAIN req[g].Body.o
    /\ req[g].Body.o["hostId"] = JStr("")

RECURSIVE SameAsJSON(_, _, _)
\* Every field of the Go value v of type T equals the corresponding field of
\* the JSON value j; a field j has no key for is the zero value.
SameAsJSON(v, T, j) ==
  CASE T.k = "string" -> j = JStr(v)
    [] T.k = "int" -> j = JNum(v)
    [] T.k = "bool" -> j = JBool(v)
    [] T.k = "ptr" ->
         IF j.t = "null" THEN v.t = "nil"
         ELSE v.t = "ptr" /\ SameAsJSON(v.v, T.elem, j)
    [] T.k = "slice" ->
         /\ j.t = "arr" /\ v.t = "slice"
         /\ DOMAIN v.e = DOMAIN j.e
         /\ \A i \in DOMAIN j.e : SameAsJSON(v.e[i], T.elem, j.e[i])
    [] T.k = "struct" ->
         /\ j.t = "obj"
         /\ \A n \in FieldNames(T) :
              LET f == FieldOf(T, n)
              IN  IF f.tag \in DOMAIN j.o
                  THEN SameAsJSON(v[n], f.type, j.o[f.tag])
                  ELSE v[n] = Zero(f.type)

\* The call of g was answered with a success status and the well-formed body
\* of its operation.
AnsweredWell(g) ==
  /\ GotResponse(g) /\ BodyRead(g)
  /\ out[g].StatusCode < 400
  /\ out[g].body = SuccessBody(op[g])

(* C16: for every operation, a success status with a well-formed body of    *)
(* the operation's response schema gives a nil error and a response whose   *)
(* every field equals the field of the server's JSON; CreateCustomer gives  *)
(* Data.ID = "12345" and CreateKey gives Key = "LICENSE-KEY-12345".         *)
C16_RoundTrip ==
  \A g \in Goroutines :
    AnsweredWell(g)
      => /\ ret[g].err = NilError
         /\ ret[g].resp # Nil
         /\ SameAsJSON(ret[g].resp.v, ResponseType(op[g]), out[g].body.json)
         /\ op[g] = "CreateCustomer" => ret[g].resp.v.Data.ID = "12345"
         /\ op[g] = "CreateKey" => ret[g].resp.v.Key = "LICENSE-KEY-12345"

\* GetKey has returned the license of the answer, its device and its customer.
C16_Witness ==
  \E g \in Goroutines :
    /\ AnsweredWell(g) /\ op[g] = "GetKey"
    /\ ret[g].err = NilError
    /\ ret[g].resp.v.Data.License.Devices = Slice(<<[HostID |-> "host-1",
                                                     DeviceTag |-> Ptr("laptop"),
                                                     IPAddress |-> Nil,
                                                     ActivationTime |-> "2025-01-03T00:00:00Z"]>>)
    /\ ret[g].resp.v.Data.License.ExpirationDate = Nil
    /\ ret[g].resp.v.Data.Customer = Ptr([ID |-> "12345", Name |-> Ptr("A"),
                                          Email |-> Nil, Active |-> TRUE])

\* The call of g waits in httpClient.Do of its primitive.
InDo(g) == pc[g] \in {"handleRequest", "handleGetRequest", "handleDeleteRequest"}

(* C17, as stated: every call performs exactly one HTTP round trip, so the  *)
(* requests sent are as many as the calls made, and no call has returned    *)
(* without a request.                                                       *)
C17_ExactlyOneRoundTrip ==
  /\ nreq = ncalls
  /\ \A g \in DOMAIN pc : Done(g) => req[g] # Nil

(* C17, amended: a call sends its one request when it enters httpClient.Do  *)
(* and no other step sends one, so no call sends a second request after a   *)
(* failure or a success; a call that returns without having sent a request  *)
(* is one whose request could not be built, and it returns a Code -1 error  *)
(* without Status.                                                          *)
C17_AtMostOneRoundTrip ==
  [][/\ nreq' \in {nreq, nreq + 1}
     /\ (nreq' = nreq + 1)
          <=> \E g \in DOMAIN pc : pc[g] = "idle" /\ pc'[g] # "idle" /\ pc'[g] # "done"
     /\ \A g \in DOMAIN pc :
          /\ (pc[g] = "idle" /\ pc'[g] # "idle" /\ pc'[g] # "done") => req'[g] # Nil
          /\ (pc[g] # "done" /\ pc'[g] = "done" /\ out'[g] # Nil)
               => req'[g] # Nil /\ pc[g] # "idle"
          /\ (pc[g] # "done" /\ pc'[g] = "done" /\ out'[g] = Nil)
               => /\ req'[g] = Nil
                  /\ ret'[g].err # NilError
                  /\ ret'[g].err.Code = -1 /\ ret'[g].err.Status = Nil]_vars

\* The only call made has returned the error of a failed httpClient.Do, and
\* one request was sent.
C17_Witness ==
  \E g \in DOMAIN pc :
    /\ Done(g) /\ out[g] # Nil /\ out[g].doErr # ""
    /\ ncalls = 1 /\ nreq = 1

(* C18: no step of an operation call, successful or failed, changes the     *)
(* client: its base URL and access token stay the values fixed by New.      *)
C18_ClientImmutable ==
  [][client # Nil
       => /\ client' = client
          /\ client'.v.accessToken = newArgs.accessToken
          /\ client'.v.baseURL = IF newArgs.baseURL = "" THEN "https://api.keymint.dev"
                                                          ELSE newArgs.baseURL]_vars

\* A second call on the client has failed, and the client holds the base URL
\* and the token it was constructed with.
C18_Witness ==
  \E g \in DOMAIN pc :
    /\ ncalls = 2 /\ Done(g) /\ ret[g].err # NilError /\ GotResponse(g)
    /\ newArgs = [accessToken |-> "test-token", baseURL |-> "http://127.0.0.1:8080"]
    /\ client = Ptr([baseURL |-> "http://127.0.0.1:8080", accessToken |-> "test-token"])

(* C20: New with an empty access token returns a nil client with its error, *)
(* and no call of New, failing or not, sends an HTTP request; without a     *)
(* client no request is ever sent.                                          *)
C20_FailedNewIsInert ==
  [][/\ newArgs' # newArgs
          => /\ nreq' = nreq
             /\ newArgs'.accessToken = "" => (client' = Nil /\ newErr' # NilError)
             /\ newArgs'.accessToken # "" => (client' # Nil /\ newErr' = NilError)
     /\ client = Nil => (nreq = 0 /\ nreq' = 0)]_vars

\* New("", "http://127.0.0.1:8080") has failed: no client, no request.
C20_Witness ==
  /\ newArgs = [accessToken |-> "", baseURL |-> "http://127.0.0.1:8080"]
  /\ client = Nil /\ newErr # NilError
  /\ nreq = 0 /\ ncalls = 0

\* What g's own operation makes of g's own HTTP outcome, starting from its
\* own zero result.
OwnAnswer(g) ==
  LET T == ResponseType(op[g])
      f == CASE BindingVerb(op[g]) \in {"POST", "PUT"} ->
                  handleRequestFinish(out[g], T, Zero(T))
             [] BindingVerb(op[g]) = "GET" -> handleGetRequestFinish(out[g], T, Zero(T))
             [] BindingVerb(op[g]) = "DELETE" ->
                  handleDeleteRequestFinish(out[g], T, Zero(T))
  IN  [resp |-> Ptr(f.result), err |-> f.err]

\* The request g's own operation builds from g's own parameters.
OwnRequest(g) ==
  /\ req[g].Method = BindingVerb(op[g])
  /\ req[g].URL = client.v.baseURL \o BindingPath(op[g])
  /\ req[g].RawQuery = BindingQuery(op[g], params[g])
  /\ IF BindingVerb(op[g]) \in {"GET", "DELETE"}
     THEN req[g].Body = NoBody
     ELSE CarriesRecord(req[g].Body, params[g], BindingParams(op[g]))

(* C19: with several calls running at once on one client, in every          *)
(* interleaving each call holds the request of its own parameters, an       *)
(* untouched result of its own while it waits, and when it has returned the *)
(* response value and the error that its own HTTP response determines,      *)
(* whatever the other calls sent, received or returned.                     *)
C19_CallsIsolated ==
  \A g \in DOMAIN pc :
    /\ req[g] # Nil => OwnRequest(g)
    /\ InDo(g) => (out[g] = Nil /\ result[g] = Zero(ResponseType(op[g])))
    /\ (Done(g) /\ out[g] # Nil) => ret[g] = OwnAnswer(g)

\* A call has returned the success of its own answer while another call, of
\* another operation, is still in httpClient.Do, and an earlier one failed.
C19_Witness ==
  \E g, h \in DOMAIN pc :
    /\ g # h /\ op[g] # op[h]
    /\ InDo(h)
    /\ Done(g) /\ AnsweredWell(g) /\ ret[g].err = NilError
    /\ nreq = 2

(* C21: NewSDK, the legacy constructor, called with an empty access token   *)
(* fails with the message "access token is required to initialize the SDK", *)
(* whatever the base URL.                                                   *)
C21_LegacyEmptyTokenFails ==
  (newArgs # Nil /\ newArgs.accessToken = "")
    => /\ client = Nil
       /\ newErr # NilError
       /\ Error(newErr) = "access token is required to initialize the SDK"

\* NewSDK("", "http://127.0.0.1:8080") has returned its error.
C21_Witness ==
  /\ newArgs = [accessToken |-> "", baseURL |-> "http://127.0.0.1:8080"]
  /\ newErr = Errorf("access token is required to initialize the SDK")

\* What the method name of Client, on the client c with the parameters ps,
\* gives up to httpClient.Do: the request, or the error.
ClientBuild(name, c, ps) ==
  CASE BindingVerb(name) \in {"POST", "PUT"} ->
         handleRequestBuild(c, BindingVerb(name), BindingPath(name), ps, BindingParams(name))
    [] BindingVerb(name) = "GET" ->
         handleGetRequestBuild(c, BindingPath(name),
                               IF name = "GetAllCustomers" THEN Nil
                               ELSE Map(BindingQuery(name, ps)))
    [] BindingVerb(name) = "DELETE" ->
         handleDeleteRequestBuild(c, BindingPath(name), Map(BindingQuery(name, ps)))

(* C30: the SDK type behaves as the Client type: with the same token, base  *)
(* URL, operation, parameters and HTTP outcome, the method of the SDK sends *)
(* the request (verb, URL, headers, query, body) and returns the response   *)
(* value and error of the method of Client of the same name; the two        *)
(* constructors differ only in the message of the empty token.              *)
C30_SDKEquivalentToClient ==
  /\ newArgs # Nil
       => /\ client = New(newArgs.accessToken, newArgs.baseURL).client
          /\ (newErr = New(newArgs.accessToken, newArgs.baseURL).err)
               <=> newArgs.accessToken # ""
  /\ \A g \in DOMAIN pc :
       /\ (InDo(g) \/ Done(g))
            => req[g] = ClientBuild(op[g], client.v, params[g]).req
       /\ (Done(g) /\ out[g] = Nil)
            => ret[g] = [resp |-> Ptr(Zero(ResponseType(op[g]))),
                         err |-> ClientBuild(op[g], client.v, params[g]).err]
       /\ (Done(g) /\ out[g] # Nil) => ret[g] = OwnAnswer(g)

\* DeleteCustomer of the SDK has sent its DELETE and returned the error
\* record of the server's 400.
C30_Witness ==
  \E g \in DOMAIN pc :
    /\ Done(g) /\ op[g] = "DeleteCustomer"
    /\ req[g] # Nil /\ out[g] # Nil
    /\ req[g].Method = "DELETE" /\ req[g].RawQuery = [customerId |-> "12345"]
    /\ out[g] = Outcome("", 400, "", BodyError)
    /\ ret[g].err = ApiErrorOf("Email already exists", 1001, Ptr(400))

(* C22: the three primitives classify alike: for the HTTP outcome of any    *)
(* call (a failed Do, a failed read, any status and body) the error         *)
(* (Message, Code, Status) and the decoded result are the same whichever    *)
(* primitive handles it, and so is the error of a request that cannot be    *)
(* built.                                                                   *)
C22_PrimitivesClassifyAlike ==
  \A g \in DOMAIN pc :
    /\ (Done(g) /\ out[g] # Nil)
         => LET T == ResponseType(op[g])
                post == handleRequestFinish(out[g], T, Zero(T))
                get == handleGetRequestFinish(out[g], T, Zero(T))
                delete == handleDeleteRequestFinish(out[g], T, Zero(T))
            IN  /\ post = get /\ get = delete
                /\ ret[g] = [resp |-> Ptr(post.result), err |-> post.err]
    /\ (Done(g) /\ out[g] = Nil)
         => LET post == handleRequestBuild(client.v, "POST", BindingPath(op[g]),
                                           [CustomerID |-> ""], ToggleCustomerStatusParams)
                get == handleGetRequestBuild(client.v, BindingPath(op[g]), Nil)
                delete == handleDeleteRequestBuild(client.v, BindingPath(op[g]), Nil)
            IN  /\ post.err = get.err /\ get.err = delete.err
                /\ ret[g].err = post.err

\* DeleteCustomer has returned the unclassified error of a 503 that
\* handleRequest gives for the same response.
C22_Witness ==
  \E g \in DOMAIN pc :
    /\ Done(g) /\ op[g] = "DeleteCustomer"
    /\ out[g] = Outcome("", 503, "", BodyNotJSON)
    /\ ret[g].err = ApiErrorOf("API error: Bad Gateway", -1, Ptr(503))
    /\ ret[g].err = handleRequestFinish(out[g], DeleteCustomerResponse,
                                        Zero(DeleteCustomerResponse)).err

(* C23: a response of status 400 or more gives a non-nil error and is never *)
(* decoded into the result, whatever its body, a valid success payload      *)
(* too; a response of a status below 400 is never parsed as an error        *)
(* record: its error is nil or the Code -1 error of the failed decoding.    *)
C23_ErrorIffStatus400 ==
  \A g \in DOMAIN pc :
    (Done(g) /\ BodyRead(g))
      => IF out[g].StatusCode >= 400
         THEN /\ ret[g].err # NilError
              /\ ret[g].err.Status = Ptr(out[g].StatusCode)
              /\ ret[g].resp = Ptr(Zero(ResponseType(op[g])))
         ELSE \/ ret[g].err = NilError
              \/ /\ ret[g].err.Code = -1
                 /\ ret[g].err.Message =
                      "failed to unmarshal response: "
                        \o Unmarshal(out[g].body, ResponseType(op[g]),
                                     Zero(ResponseType(op[g]))).err

\* A 400 with the success payload of the operation has given an error and a
\* zero response.
C23_Witness ==
  \E g \in DOMAIN pc :
    /\ Done(g) /\ BodyRead(g) /\ op[g] = "GetKey"
    /\ out[g].StatusCode = 400 /\ out[g].body = BodyGetKey
    /\ ret[g].err # NilError
    /\ ret[g].resp = Ptr(Zero(GetKeyResponse))

RECURSIVE Conforms(_, _)
\* The JSON value j decodes into the Go type T: it is JSON, and every value
\* in it that meets a field, an element or T itself is null or of the JSON
\* kind of that type.
Conforms(j, T) ==
  /\ j # Invalid
  /\ \/ j.t = "null"
     \/ CASE T.k = "string" -> j.t = "str"
          [] T.k = "int" -> j.t = "num"
          [] T.k = "bool" -> j.t = "bool"
          [] T.k = "ptr" -> Conforms(j, T.elem)
          [] T.k = "slice" -> j.t = "arr" /\ \A i \in DOMAIN j.e : Conforms(j.e[i], T.elem)
          [] T.k = "struct" ->
               /\ j.t = "obj"
               /\ \A n \in FieldNames(T) :
                    FieldOf(T, n).tag \in DOMAIN j.o
                      => Conforms(j.o[FieldOf(T, n).tag], FieldOf(T, n).type)

(* C24: for a response of a status below 400 the error is nil exactly when  *)
(* the body decodes into the response type; a body with status false and a  *)
(* code other than 0 gives a nil error and those values in the response.    *)
C24_NilErrorIffDecodes ==
  \A g \in DOMAIN pc :
    (Done(g) /\ BodyRead(g) /\ out[g].StatusCode < 400)
      => /\ (ret[g].err = NilError)
              <=> Conforms(out[g].body.json, ResponseType(op[g]))
         /\ out[g].body = BodyBusinessFailure
              => /\ ret[g].err = NilError
                 /\ ret[g].resp.v.Code = 1001
                 /\ "Status" \in DOMAIN ret[g].resp.v => ret[g].resp.v.Status = FALSE

\* CreateCustomer answered 200 with status false and code 1001 has returned
\* them with a nil error.
C24_Witness ==
  \E g \in DOMAIN pc :
    /\ Done(g) /\ BodyRead(g) /\ op[g] = "CreateCustomer"
    /\ out[g].StatusCode = 200 /\ out[g].body = BodyBusinessFailure
    /\ ret[g].err = NilError
    /\ ret[g].resp.v.Status = FALSE /\ ret[g].resp.v.Code = 1001

\* Valid JSON that carries none of the fields of a response type.
BodiesWithoutFields == {BodyNull, BodyEmptyObject, BodyUnknownKeys}

(* C25: a response of a status below 400 whose body is valid JSON without   *)
(* any of the expected fields (null, an empty object, an object of unknown  *)
(* keys only) gives a nil error and a response of zero values.              *)
C25_MissingFieldsAreZero ==
  \A g \in DOMAIN pc :
    (Done(g) /\ BodyRead(g) /\ out[g].StatusCode < 400
       /\ out[g].body \in BodiesWithoutFields)
      => /\ ret[g].err = NilError
         /\ ret[g].resp = Ptr(Zero(ResponseType(op[g])))

\* GetAllCustomers answered 200 with {"ok":1} has returned a zero response,
\* its Data a nil slice.
C25_Witness ==
  \E g \in DOMAIN pc :
    /\ Done(g) /\ BodyRead(g) /\ op[g] = "GetAllCustomers"
    /\ out[g].StatusCode = 200 /\ out[g].body = BodyUnknownKeys
    /\ ret[g].err = NilError
    /\ ret[g].resp.v = [Action |-> "", Status |-> FALSE, Data |-> NilSlice, Code |-> 0]

(* C26: when the body of a response of status 400 or more has a "status"    *)
(* field of its own, the Status of the returned error is the HTTP status    *)
(* code of the response, never the value of the body.                       *)
C26_StatusIsHTTPStatus ==
  \A g \in DOMAIN pc :
    (Done(g) /\ BodyRead(g) /\ out[g].StatusCode >= 400
       /\ out[g].body.json.t = "obj" /\ "status" \in DOMAIN out[g].body.json.o)
      => /\ ret[g].err # NilError
         /\ ret[g].err.Status = Ptr(out[g].StatusCode)

\* DeleteCustomer answered 503 with an error body of "status":418 has
\* returned the error with Status 503.
C26_Witness ==
  \E g \in DOMAIN pc :
    /\ Done(g) /\ BodyRead(g) /\ op[g] = "DeleteCustomer"
    /\ out[g].StatusCode = 503 /\ out[g].body = BodyErrorWithStatus
    /\ ret[g].err = ApiErrorOf("Invalid request body", 400, Ptr(503))

\* What the method name of Client returns on the client c for the parameters
\* ps when the HTTP outcome of the call is o (Nil when no request was sent):
\* a function of these four alone.
CallOutcome(c, name, ps, o) ==
  LET T == ResponseType(name)
      b == ClientBuild(name, c, ps)
      f == CASE BindingVerb(name) \in {"POST", "PUT"} -> handleRequestFinish(o, T, Zero(T))
             [] BindingVerb(name) = "GET" -> handleGetRequestFinish(o, T, Zero(T))
             [] BindingVerb(name) = "DELETE" -> handleDeleteRequestFinish(o, T, Zero(T))
  IN  IF b.err # NilError
      THEN [resp |-> Ptr(Zero(T)), err |-> b.err]
      ELSE [resp |-> Ptr(f.result), err |-> f.err]

(* C27: what a call returns depends only on the configuration of the        *)
(* client, the parameters of the call and the HTTP outcome of the call:     *)
(* after any calls made before on the client, failed ones too, it is the    *)
(* same function of these, so two runs that differ only in the earlier      *)
(* calls return the same response value and error.                          *)
C27_OutcomeIndependentOfHistory ==
  \A g \in DOMAIN pc :
    Done(g)
      => /\ ret[g] = CallOutcome([baseURL |-> IF newArgs.baseURL = ""
                                              THEN "https://api.keymint.dev"
                                              ELSE newArgs.baseURL,
                                  accessToken |-> newArgs.accessToken],
                                 op[g], params[g], out[g])
         /\ (out[g] = Nil) <=> (req[g] = Nil)

\* The second call on the client has returned the success of its answer.
C27_Witness ==
  \E g \in DOMAIN pc :
    /\ ncalls = 2 /\ nreq = 2
    /\ Done(g) /\ AnsweredWell(g) /\ op[g] = "ActivateKey"
    /\ ret[g].err = NilError
    /\ ret[g].resp.v.LicenseeName = Ptr("A")

(* C29: New does not validate the base URL: with a token that is not empty  *)
(* it succeeds for every base URL, and a base URL no request can be built   *)
(* from shows only at each operation call, as an error of Code -1 without   *)
(* Status, with no HTTP request sent.                                       *)
C29_BaseURLNotValidated ==
  /\ (newArgs # Nil /\ newArgs.accessToken # "")
       => /\ client # Nil /\ newErr = NilError
          /\ newArgs.baseURL # "" => client.v.baseURL = newArgs.baseURL
  /\ (newArgs # Nil /\ newArgs.baseURL = "://keymint")
       => /\ nreq = 0
          /\ \A g \in DOMAIN pc :
               /\ ~InDo(g)
               /\ Done(g) => /\ req[g] = Nil /\ out[g] = Nil
                             /\ ret[g].err # NilError
                             /\ ret[g].err.dyn = "*ApiError"
                             /\ ret[g].err.Code = -1 /\ ret[g].err.Status = Nil

\* On a client of the base URL "://keymint" the second call, a GetKey, has
\* failed as the first did, and nothing was sent.
C29_Witness ==
  \E g \in DOMAIN pc :
    /\ client # Nil /\ client.v.baseURL = "://keymint"
    /\ ncalls = 2 /\ nreq = 0
    /\ Done(g) /\ op[g] = "GetKey"
    /\ ret[g].err.Code = -1 /\ ret[g].err.Status = Nil

RECURSIVE Split(_, _)
\* The pieces of the sequence q between the elements equal to sep.
Split(q, sep) ==
  IF \A i \in DOMAIN q : q[i] # sep THEN <<q>>
  ELSE LET i == CHOOSE i \in DOMAIN q : q[i] = sep /\ \A j \in 1..(i - 1) : q[j] # sep
       IN  <<SubSeq(q, 1, i - 1)>> \o Split(SubSeq(q, i + 1, Len(q)), sep)

RECURSIVE QueryUnescape(_)
\* The decoding of a query component: "+" is the space, "%" and two
\* hexadecimal digits the character of that code; a "%" without them makes
\* the component invalid.
QueryUnescape(q) ==
  IF q = <<>> THEN <<>>
  ELSE IF Head(q) = "+" THEN <<" ">> \o QueryUnescape(Tail(q))
  ELSE IF Head(q) = "%"
  THEN IF Len(q) >= 3 /\ \E ch \in QueryChars : EscapeChar(ch) = SubSeq(q, 1, 3)
       THEN <<CHOOSE ch \in QueryChars : EscapeChar(ch) = SubSeq(q, 1, 3)>>
              \o QueryUnescape(SubSeq(q, 4, Len(q)))
       ELSE <<"invalid URL escape">>
  ELSE <<Head(q)>> \o QueryUnescape(Tail(q))

\* The decoding of a query string, as a server does it: the pieces between
\* "&", but the empty ones, each cut at its first "=" into a key and a
\* value, both unescaped, in the order of the string.
ParseQuery(q) ==
  LET pieces == SelectSeq(Split(q, "&"), LAMBDA p : p # <<>>)
      Pair(p) == LET kv == Split(p, "=")
                 IN  [key |-> QueryUnescape(kv[1]),
                      value |-> QueryUnescape(SubSeq(p, Len(kv[1]) + 2, Len(p)))]
  IN  [i \in DOMAIN pieces |-> Pair(pieces[i])]

(* C28: the query string of a GET or DELETE request decodes to exactly the  *)
(* caller's value for each key, once each, whatever the value: with         *)
(* reserved characters, with a space, or empty, in which case the key is    *)
(* still sent.                                                              *)
C28_QueryRoundTrip ==
  \A g \in DOMAIN pc :
    (pc[g] = "done" /\ params[g] # Nil)
      => LET sent == ParseQuery(req[g].RawQuery)
             m == params[g].m
         IN  /\ Len(sent) = Cardinality(DOMAIN m)
             /\ {sent[i] : i \in DOMAIN sent}
                  = {[key |-> <<k>>, value |-> m[k]] : k \in DOMAIN m}

\* GetKey's query of the product "a&" and an empty license key is
\* licenseKey=&productId=a%26.
C28_Witness ==
  \E g \in DOMAIN pc :
    /\ pc[g] = "done"
    /\ params[g] = Map([productId |-> <<"a", "&">>, licenseKey |-> <<>>])
    /\ req[g].RawQuery = <<"licenseKey", "=", "&", "productId", "=", "a", "%", "2", "6">>

====
